---- MODULE Spec2Model ----
(***************************************************************************)
(* FoodLang AI backend (src/backend/main.py): the sliding-window rate      *)
(* limiter, the health monitor, the cost ledger, the glossary / FAISS      *)
(* index state and the translate / OCR / upload request handlers, as a     *)
(* state machine.  Time is counted in integer ticks of time.time().        *)
(***************************************************************************)
EXTENDS Integers, Sequences, FiniteSets, TLC

\* ------------------------------------------------------------------ bounds
MaxTime == 3          \* the clock stops advancing here
MaxCalls == 3         \* direct is_allowed calls recorded in one behaviour
MaxLimit == 2         \* largest per-endpoint limit drawn
MaxWindow == 2        \* largest RATE_LIMIT_WINDOW drawn
Epoch == 10           \* time.time() when the process starts, in ticks
NumSlots == 2         \* requests in flight at once
MaxRequests == 2      \* requests received in one behaviour
MaxReqTime == 1       \* clock ticks while requests are served
MaxN == 4             \* largest glossary drawn for a search
MaxRows == 2          \* most rows in an uploaded sheet
EMBEDDING_DIMENSIONS == 1   \* config.EMBEDDING_DIMENSIONS, scaled down
TOP_K_RETRIEVAL == 3  \* config.TOP_K_RETRIEVAL
max_length == 1       \* sanitize_text_input's max_length, scaled down
cost_log_keep == 3    \* entries log_api_usage keeps, scaled down
deque_maxlen == 3     \* maxlen of the health monitor's deques, scaled down
alert_cooldown_duration == 2   \* HealthMonitor.alert_cooldown_duration, in ticks
error_window == 2     \* get_error_rate's window_minutes, in ticks
response_time_threshold == 1   \* alert_thresholds["response_time_threshold"], in ticks
error_rate_threshold_tenths == 1   \* alert_thresholds["error_rate_threshold"] = 0.1
MaxHMTime == 2        \* clock ticks while the health check is exercised
MaxSamples == 2       \* samples recorded directly into each monitor buffer
MaxRecords == 5       \* error samples recorded in one behaviour of the buffers
MaxAlerts == 2        \* alerts raised in one behaviour of the monitor
MaxLangLen == 10      \* longest text given to detect_language
arabic_threshold_tenths == 7    \* detect_language: arabic_ratio > 0.7
english_threshold_tenths == 3   \* detect_language: arabic_ratio < 0.3
health_timeout == 3   \* wait_for_health_check's timeout, in polls of 2 seconds
MaxChecks == 5        \* health checks of the external monitor in one behaviour
max_consecutive_failures == 3   \* monitor_health.HealthMonitor.max_consecutive_failures

\* ------------------------------------------------------------------ domains
IPs == {"ip1", "ip2"}
RLEndpoints == {"translate", "ocr"}
\* the endpoint name each handler passes to rate_limit_dependency
Endpoints == {"translate", "ocr", "admin", "admin_upload", "cost"}
Keys == IPs \X Endpoints
Slots == 1..NumSlots
AlertTypes == {"slow_response", "glossary_error", "openai_api_error", "high_memory",
               "high_cpu", "high_disk", "high_error_rate", "slow_response_avg"}
\* response.usage.total_tokens values the backend reports
UsageTokens == {3, 4}

SeqsUpTo(S, n) == UNION {[1..m -> S] : m \in 0..n}

\* Optional[...] values: None, or one value
None == <<>>
Some(x) == <<x>>
Get(o) == o[1]

\* embedding vectors, one coordinate per dimension
Coords == {0, 1}
Vectors == [1..EMBEDDING_DIMENSIONS -> Coords]

\* glossary rows that survive the cleaning of the loader
ValidRows == {[english |-> "salt", arabic |-> "milh"],
              [english |-> "sugar", arabic |-> "sukkar"]}

VARIABLES
    now,                 \* time.time() / datetime.utcnow()
    cfg_limit,           \* the limit each endpoint passes to rate_limit_dependency
    cfg_window,          \* config.RATE_LIMIT_WINDOW
    rate_limit_storage,  \* defaultdict(deque): key -> timestamps
    rl_calls,            \* history of is_allowed calls: [key, t, ok]
    state_index,         \* state.index: None or the sequence of stored vectors
    state_glossary,      \* state.glossary: None or the sequence of rows
    state_metadata,      \* state.metadata
    state_initialized,   \* state.initialized
    disk_index,          \* config.INDEX_PATH: None, or the index in the file
    disk_glossary,       \* config.GLOSSARY_PATH: None, or the rows in the file
    search_out,          \* what the last Retrieve step produced
    cost_tracker,        \* state.cost_tracker
    cost_log,            \* the entries of data/cost_log.json
    recent_errors,       \* health_monitor.recent_errors
    recent_response_times,  \* health_monitor.recent_response_times
    alert_cooldown,      \* health_monitor.alert_cooldown
    alert_log,           \* the alerts raised: ALERT log lines, persisted or not
    req,                 \* the requests in flight, one per slot
    started              \* requests received so far

rlVars == <<cfg_limit, cfg_window, rate_limit_storage, rl_calls>>
appVars == <<state_index, state_glossary, state_metadata, state_initialized>>
diskVars == <<disk_index, disk_glossary>>
costVars == <<cost_tracker, cost_log>>
hmVars == <<recent_errors, recent_response_times, alert_cooldown, alert_log>>
reqVars == <<req, started>>
vars == <<now, rlVars, appVars, diskVars, search_out, costVars, hmVars, reqVars>>

\* ------------------------------------------------------------ rate limiter
KeyIgnoresEndpoint(ip, endpoint) == <<ip, "admin">>

\* key = f"{client_ip}:{endpoint}"
Key(ip, endpoint) == <<ip, endpoint>>

ExpiredInclusive(ts, t, window) == ts <= t - window

ExpiredAfterTwoWindows(ts, t, window) == ts < t - 2 * window

\* requests[0] < now - window
Expired(ts, t, window) == ts < t - window

PruneNothing(requests, t, window) == requests

\* while requests and requests[0] < now - window: requests.popleft()
RECURSIVE Prune(_, _, _)
Prune(requests, t, window) ==
    IF requests # <<>> /\ Expired(Head(requests), t, window)
    THEN Prune(Tail(requests), t, window)
    ELSE requests

LimitExceededOffByOne(requests, limit) == Len(requests) > limit

\* if len(requests) >= limit: return False
LimitExceeded(requests, limit) == Len(requests) >= limit

\* the value is_allowed returns for this key at the current time
IsAllowedResult(key, limit, window) ==
    ~LimitExceeded(Prune(rate_limit_storage[key], now, window), limit)

IsAllowedStorageAlwaysRecords(key, limit, window) ==
    [rate_limit_storage EXCEPT ![key] =
        Append(Prune(rate_limit_storage[key], now, window), now)]

IsAllowedStoragePrepends(key, limit, window) ==
    LET pruned == Prune(rate_limit_storage[key], now, window)
    IN  [rate_limit_storage EXCEPT ![key] =
            IF LimitExceeded(pruned, limit) THEN pruned ELSE <<now>> \o pruned]

\* the storage is_allowed leaves behind
IsAllowedStorage(key, limit, window) ==
    LET pruned == Prune(rate_limit_storage[key], now, window)
    IN  [rate_limit_storage EXCEPT ![key] =
            IF LimitExceeded(pruned, limit) THEN pruned ELSE Append(pruned, now)]

\* one call RateLimiter.is_allowed(ip, endpoint, limit) with the default window
IsAllowedCall(ip, endpoint) ==
    /\ Len(rl_calls) < MaxCalls
    /\ LET key == Key(ip, endpoint)
           limit == cfg_limit[endpoint]
       IN  /\ rate_limit_storage' = IsAllowedStorage(key, limit, cfg_window)
           /\ rl_calls' = Append(rl_calls,
                  [key |-> key, t |-> now, ok |-> IsAllowedResult(key, limit, cfg_window)])
    /\ UNCHANGED <<now, cfg_limit, cfg_window, appVars, diskVars, search_out, costVars, hmVars, reqVars>>

\* the clock advances between calls
Tick ==
    /\ now < Epoch + MaxTime
    /\ now' = now + 1
    /\ UNCHANGED <<rlVars, appVars, diskVars, search_out, costVars, hmVars, reqVars>>

\* -------------------------------------------------------------------- texts
\* a text is a sequence of characters: a letter, a space, a null byte
Chars == {"a", "sp", "nul"}
Texts == SeqsUpTo(Chars, max_length + 1)

NotNul(c) == c # "nul"

\* text.replace('\x00', '')
RemoveNul(text) == SelectSeq(text, NotNul)

RECURSIVE LStrip(_)
LStrip(text) ==
    IF text # <<>> /\ Head(text) = "sp" THEN LStrip(Tail(text)) ELSE text

RECURSIVE RStrip(_)
RStrip(text) ==
    IF text # <<>> /\ text[Len(text)] = "sp"
    THEN RStrip(SubSeq(text, 1, Len(text) - 1))
    ELSE text

\* str.strip()
Strip(text) == RStrip(LStrip(text))

\* len(text) > max_length, on the text already cleaned
TooLong(cleaned) == Len(cleaned) > max_length

EmptyNeverChecked(cleaned) == FALSE

\* len(text) == 0, on the text already cleaned
EmptyAfterCleaning(cleaned) == Len(cleaned) = 0

\* sanitize_text_input: ok, or HTTPException(400)
sanitize_text_input(text) ==
    LET cleaned == Strip(RemoveNul(text))
    IN  IF text = <<>> THEN [ok |-> FALSE, text |-> text]
        ELSE IF TooLong(cleaned) THEN [ok |-> FALSE, text |-> cleaned]
        ELSE IF EmptyAfterCleaning(cleaned) THEN [ok |-> FALSE, text |-> cleaned]
        ELSE [ok |-> TRUE, text |-> cleaned]

\* len(enc.encode(text)): the tokenizer is outside the repository; one token
\* per character stands for it
count_tokens(text) == Len(text)

\* -------------------------------------------------------------- cost ledger
ZeroCost == [embedding_tokens |-> 0, completion_tokens |-> 0,
             embedding_requests |-> 0, completion_requests |-> 0]

TrackEmbeddingCallOnly(ct, text) == [ct EXCEPT !.embedding_requests = @ + 1]

\* track_embedding_cost: tokens, then requests, with no await between them
track_embedding_cost(ct, text) ==
    [ct EXCEPT !.embedding_tokens = @ + count_tokens(text),
               !.embedding_requests = @ + 1]

TrackCompletionOverwrites(ct, tokens) ==
    [ct EXCEPT !.completion_tokens = tokens, !.completion_requests = 1]

\* track_completion_cost: tokens, then requests, with no await between them
track_completion_cost(ct, tokens) ==
    [ct EXCEPT !.completion_tokens = @ + tokens,
               !.completion_requests = @ + 1]

\* round(x, 6) of a dollar amount kept in units of 1e-9 dollars
Round6(nano) == ((nano + 500) \div 1000) * 1000

\* calculate_costs: $0.020 and $0.150 per million tokens
calculate_costs(ct) ==
    [embedding_tokens |-> ct.embedding_tokens,
     completion_tokens |-> ct.completion_tokens,
     embedding_cost |-> Round6(ct.embedding_tokens * 20),
     completion_cost |-> Round6(ct.completion_tokens * 150),
     total_cost |-> Round6(ct.embedding_tokens * 20 + ct.completion_tokens * 150)]

\* log_api_usage: append an entry to the cost log file, keep the last entries;
\* a failure while reading or writing the file is logged and swallowed
log_api_usage(log, ct, endpoint, cost, tokens_used, request_type, fileOk) ==
    LET entry == [timestamp |-> now, endpoint |-> endpoint,
                  request_type |-> request_type, tokens_used |-> tokens_used,
                  cost |-> cost, session_total_cost |-> calculate_costs(ct).total_cost]
        logs == Append(log, entry)
    IN  IF ~fileOk THEN log
        ELSE IF Len(logs) > cost_log_keep
             THEN SubSeq(logs, Len(logs) - cost_log_keep + 1, Len(logs))
             ELSE logs

\* ----------------------------------------------------------- health monitor
DequeAppendDropsNewest(dq, x) ==
    IF Len(dq) >= deque_maxlen THEN dq ELSE Append(dq, x)

\* deque(maxlen=...).append
DequeAppend(dq, x) ==
    IF Len(dq) >= deque_maxlen THEN Append(Tail(dq), x) ELSE Append(dq, x)

RecordErrorLogsOnly(errors, error_type, endpoint, status, rid) == errors

\* HealthMonitor.record_error; rid names the request that recorded the sample
record_error(errors, error_type, endpoint, status, rid) ==
    DequeAppend(errors, [timestamp |-> now, type |-> error_type,
                         endpoint |-> endpoint, status |-> status, rid |-> rid])

\* HealthMonitor._trigger_alert: [cooldown, log] after the call;
\* alert_cooldown.get(alert_type, 0) is 0 for a type that never fired
TriggerAlertForgetsCooldown(cooldown, alog, alert_type, fileOk) ==
    IF now - cooldown[alert_type] > alert_cooldown_duration
    THEN [cooldown |-> cooldown,
          log |-> Append(alog, [timestamp |-> now, type |-> alert_type,
                                persisted |-> fileOk])]
    ELSE [cooldown |-> cooldown, log |-> alog]

TriggerAlertResetsOnAttempt(cooldown, alog, alert_type, fileOk) ==
    IF now - cooldown[alert_type] > alert_cooldown_duration
    THEN [cooldown |-> [cooldown EXCEPT ![alert_type] = now],
          log |-> Append(alog, [timestamp |-> now, type |-> alert_type,
                                persisted |-> fileOk])]
    ELSE [cooldown |-> [cooldown EXCEPT ![alert_type] = now], log |-> alog]

\* an entry of `log` is the ALERT line of logger.warning; persisted tells
\* whether _log_alert could also write it to data/alerts.json (fileOk)
trigger_alert(cooldown, alog, alert_type, fileOk) ==
    IF now - cooldown[alert_type] > alert_cooldown_duration
    THEN [cooldown |-> [cooldown EXCEPT ![alert_type] = now],
          log |-> Append(alog, [timestamp |-> now, type |-> alert_type,
                                persisted |-> fileOk])]
    ELSE [cooldown |-> cooldown, log |-> alog]

\* error samples newer than the cutoff
RecentErrors(errors, window) ==
    SelectSeq(errors, LAMBDA e : e.timestamp > now - window)

GetErrorRateUnguarded(errors, times, window) ==
    [num |-> Len(RecentErrors(errors, window)), den |-> Len(times)]

\* HealthMonitor.get_error_rate, as the fraction num / den (0.0 is 0 / 1)
get_error_rate(errors, times, window) ==
    IF errors = <<>> THEN [num |-> 0, den |-> 1]
    ELSE IF Len(times) = 0 THEN [num |-> 0, den |-> 1]
    ELSE [num |-> Len(RecentErrors(errors, window)), den |-> Len(times)]

\* a free request slot
IdleReq ==
    [pc |-> "idle", kind |-> "none", ip |-> "none", id |-> 0, start_time |-> 0,
     text |-> <<>>, status |-> 0, backends |-> {}, charged |-> FALSE,
     logged |-> FALSE, failed_charge |-> FALSE, snap |-> None,
     tokens |-> 0, body |-> None, file |-> None, rl_now |-> 0,
     steps |-> <<>>, lang |-> None, consecutive_failures |-> 0]

\* AppState.__init__
InitAppState ==
    /\ state_index = None
    /\ state_glossary = None
    /\ state_metadata = None
    /\ state_initialized = FALSE

\* no processed glossary on disk
InitDisk ==
    /\ disk_index = None
    /\ disk_glossary = None

\* the cost ledger, the monitor and the request slots at process start
InitRest ==
    /\ cost_tracker = ZeroCost
    /\ cost_log = <<>>
    /\ recent_errors = <<>>
    /\ recent_response_times = <<>>
    /\ alert_cooldown = [a \in AlertTypes |-> 0]
    /\ alert_log = <<>>
    /\ req = [r \in Slots |-> IdleReq]
    /\ started = 0

\* ---------------------------------------------------------------- retrieval
\* squared Euclidean distance, the metric of faiss.IndexFlatL2
RECURSIVE SqDistFrom(_, _, _)
SqDistFrom(u, v, d) ==
    IF d > EMBEDDING_DIMENSIONS THEN 0
    ELSE (u[d] - v[d]) * (u[d] - v[d]) + SqDistFrom(u, v, d + 1)

SqDist(u, v) == SqDistFrom(u, v, 1)

MaxCoord == CHOOSE c \in Coords : \A c2 \in Coords : c2 <= c

\* the distance IndexFlatL2 reports for a slot it could not fill (FLT_MAX)
PadDistance == EMBEDDING_DIMENSIONS * MaxCoord * MaxCoord + 1

\* the label IndexFlatL2 reports for a slot it could not fill
PadLabel == 0 - 1

Min(a, b) == IF a <= b THEN a ELSE b

\* the distance of 0-based label l of `index` from the query q
LabelDistance(index, q, l) ==
    IF l = PadLabel THEN PadDistance ELSE SqDist(index[l + 1], q)

\* index.search(q, k): the label rows IndexFlatL2 can return: the min(k, n)
\* nearest stored vectors by ascending distance (the order among equal
\* distances is the library's), then k - n slots filled with label -1
SearchLabels(index, q, k) ==
    LET n == Len(index)
        m == Min(k, n)
    IN  {ids \in [1..k -> (0..(n - 1)) \cup {PadLabel}] :
            /\ \A i \in (m + 1)..k : ids[i] = PadLabel
            /\ \A i \in 1..m : ids[i] # PadLabel
            /\ \A i, j \in 1..m : i # j => ids[i] # ids[j]
            /\ \A i \in 1..(m - 1) :
                   LabelDistance(index, q, ids[i]) <= LabelDistance(index, q, ids[i + 1])
            /\ \A l \in 0..(n - 1) :
                   (\A i \in 1..m : ids[i] # l) =>
                       \A i \in 1..m :
                           LabelDistance(index, q, ids[i]) <= LabelDistance(index, q, l)}

\* DataFrame.iloc with one integer position: a negative position counts from
\* the end, so -1 is the last row; pos is the 0-based row the entry came from
Iloc(glossary, l) ==
    LET pos == IF l >= 0 THEN l ELSE Len(glossary) + l
    IN  [pos |-> pos, row |-> glossary[pos + 1]]

\* lines 622-623 of translate_text: search, then map the labels to rows
Retrieve(index, glossary, q, ids) ==
    [labels |-> ids,
     distances |-> [i \in 1..Len(ids) |-> LabelDistance(index, q, ids[i])],
     retrieved |-> [i \in 1..Len(ids) |-> Iloc(glossary, ids[i])],
     n |-> Len(index)]

\* the Retrieve step on the loaded index, for a query vector q
RetrieveStep(q) ==
    /\ state_initialized
    /\ search_out = None
    /\ \E ids \in SearchLabels(Get(state_index), q, TOP_K_RETRIEVAL) :
           search_out' = Some(Retrieve(Get(state_index), Get(state_glossary), q, ids))
    /\ UNCHANGED <<now, rlVars, appVars, diskVars, costVars, hmVars, reqVars>>

\* the next query starts from a clean slate
RetrieveDone ==
    /\ search_out # None
    /\ search_out' = None
    /\ UNCHANGED <<now, rlVars, appVars, diskVars, costVars, hmVars, reqVars>>

\* a loaded glossary of 1..MaxN rows with an index of as many vectors
InitSearch ==
    /\ now = Epoch
    /\ cfg_limit = [e \in Endpoints |-> 1]
    /\ cfg_window = 1
    /\ rate_limit_storage = [k \in Keys |-> <<>>]
    /\ rl_calls = <<>>
    /\ \E n \in 1..MaxN :
          /\ state_glossary \in {Some(g) : g \in [1..n -> ValidRows]}
          /\ state_index \in {Some(x) : x \in [1..n -> Vectors]}
    /\ state_metadata = None
    /\ state_initialized = TRUE
    /\ disk_index = state_index
    /\ disk_glossary = state_glossary
    /\ InitRest
    /\ search_out = None

NextSearch ==
    \/ \E q \in Vectors : RetrieveStep(q)
    \/ RetrieveDone

SpecSearch == InitSearch /\ [][NextSearch]_vars

\* --------------------------------------------------------- detect_language
\* the characters detect_language tells apart: one in U+0600..U+06FF, an
\* ASCII letter, anything else (digits, blanks, punctuation, other scripts)
LangChars == {"arabic", "ascii_alpha", "other"}
LangTexts == SeqsUpTo(LangChars, MaxLangLen)

\* sum(1 for c in text if <c is of class cls>)
RECURSIVE CountChars(_, _)
CountChars(text, cls) ==
    IF text = <<>> THEN 0
    ELSE (IF Head(text) = cls THEN 1 ELSE 0) + CountChars(Tail(text), cls)

AboveArabicThresholdInclusive(ratio) == ratio.num * 10 >= arabic_threshold_tenths * ratio.den

\* arabic_ratio > 0.7
AboveArabicThreshold(ratio) == ratio.num * 10 > arabic_threshold_tenths * ratio.den

\* arabic_ratio < 0.3
BelowEnglishThreshold(ratio) == ratio.num * 10 < english_threshold_tenths * ratio.den

\* detect_language(text)
detect_language(text) ==
    LET arabic_chars == CountChars(text, "arabic")
        english_chars == CountChars(text, "ascii_alpha")
        total_chars == arabic_chars + english_chars
        arabic_ratio == [num |-> arabic_chars, den |-> total_chars]
    IN  IF total_chars = 0 THEN "unknown"
        ELSE IF AboveArabicThreshold(arabic_ratio) THEN "arabic"
        ELSE IF BelowEnglishThreshold(arabic_ratio) THEN "english"
        ELSE "mixed"

\* ---------------------------------------------------------------- the prompt
\* str(n) for the line numbers of a context block
Numeral(n) == <<"0", "1", "2", "3", "4", "5">>[n + 1]

ContextLineFromZero(idx, row) == <<Numeral(idx), ".", row.english, "=", row.arabic>>

\* f"{idx+1}. {row['english']} = {row['arabic']}"
ContextLine(idx, row) == <<Numeral(idx + 1), ".", row.english, "=", row.arabic>>

\* for idx, (_, row) in enumerate(retrieved.iterrows()): context_lines.append(...)
context_lines(retrieved) ==
    [i \in 1..Len(retrieved) |-> ContextLine(i - 1, retrieved[i].row)]

\* "\n".join(lines)
RECURSIVE Join(_)
Join(lines) ==
    IF lines = <<>> THEN <<>>
    ELSE IF Len(lines) = 1 THEN lines[1]
    ELSE lines[1] \o <<"nl">> \o Join(Tail(lines))

\* the f-string of translate_text: the instructions, the context block, the
\* request to translate, the query in quotes, the closing instruction
Prompt(context, query) ==
    <<"instructions", "nl", "glossary_context", "nl">> \o context
        \o <<"nl", "nl", "translate_the_following", "nl", "quote">> \o query
        \o <<"quote", "nl", "nl", "provide_only_the_translation">>

\* lines 625-641 of translate_text, on the rows the Retrieve step produced and
\* a query that sanitize_text_input has passed
ComposeStep(text) ==
    /\ search_out # None
    /\ "prompt" \notin DOMAIN Get(search_out)
    /\ sanitize_text_input(text).ok
    /\ LET query == sanitize_text_input(text).text
           context == Join(context_lines(Get(search_out).retrieved))
       IN  search_out' = Some([query |-> query, context |-> context,
                               prompt |-> Prompt(context, query)]
                              @@ Get(search_out))
    /\ UNCHANGED <<now, rlVars, appVars, diskVars, costVars, hmVars, reqVars>>

\* queries against a loaded glossary: retrieve, then build the prompt
NextCompose ==
    \/ \E q \in Vectors : RetrieveStep(q)
    \/ \E text \in Texts : ComposeStep(text)
    \/ RetrieveDone

SpecCompose == InitSearch /\ [][NextCompose]_vars

\* ----------------------------------------------------------------- pipeline
\* get_single_embedding: the cost is tracked, then the backend is called
\* (callOk: the call returns; otherwise it raises)
get_single_embedding(ct, text, callOk) ==
    LET t == Strip(text)
    IN  IF t = <<>> THEN [ok |-> TRUE, cost |-> ct, backends |-> {}]
        ELSE [ok |-> callOk, cost |-> track_embedding_cost(ct, t),
              backends |-> {"embedding"}]

RejectedAfterTracking(status, ct, log) ==
    [raised |-> "http", status |-> status, cost |-> track_embedding_cost(ct, <<"a">>),
     log |-> log, backends |-> {}, failed_charge |-> FALSE, snap |-> None,
     tokens_used |-> 0, cost_estimate |-> 0]

\* what translate_text does when it raises before any backend call
Rejected(status, ct, log) ==
    [raised |-> "http", status |-> status, cost |-> ct, log |-> log,
     backends |-> {}, failed_charge |-> FALSE, snap |-> None,
     tokens_used |-> 0, cost_estimate |-> 0]

\* translate_text(query) from the ledger ct and the cost log `log`.  The
\* backends' answers are inputs: embOk / genOk (the call returns), q (the
\* query embedding), ids (the labels the index search returns), tokens
\* (usage.total_tokens), logOk (the cost log file can be written)
translate_text(query, ct, log, embOk, genOk, q, ids, tokens, logOk) ==
    IF ~state_initialized THEN Rejected(503, ct, log)
    ELSE
    LET san == sanitize_text_input(query)
    IN  IF ~san.ok THEN Rejected(400, ct, log)
        ELSE
        LET emb == get_single_embedding(ct, san.text, embOk)
            out == Retrieve(Get(state_index), Get(state_glossary), q, ids)
            snap == Some([index |-> Get(state_index), glossary |-> Get(state_glossary),
                          n |-> Len(out.retrieved)])
            ct2 == track_completion_cost(emb.cost, tokens)
            request_cost == Round6(count_tokens(san.text) * 20 + tokens * 150)
        IN  IF ~emb.ok
            THEN [raised |-> "exception", status |-> 500, cost |-> emb.cost, log |-> log,
                  backends |-> emb.backends, failed_charge |-> emb.cost # ct,
                  snap |-> None, tokens_used |-> 0, cost_estimate |-> 0]
            ELSE IF ~genOk
            THEN [raised |-> "exception", status |-> 500, cost |-> emb.cost, log |-> log,
                  backends |-> emb.backends \cup {"generation"}, failed_charge |-> FALSE,
                  snap |-> snap, tokens_used |-> 0, cost_estimate |-> 0]
            ELSE [raised |-> "none", status |-> 200, cost |-> ct2,
                  log |-> log_api_usage(log, ct2, "/api/translate", request_cost,
                                        tokens, "translation", logOk),
                  backends |-> emb.backends \cup {"generation"}, failed_charge |-> FALSE,
                  snap |-> snap, tokens_used |-> tokens, cost_estimate |-> request_cost]

\* the label rows the search of the loaded index can return for q
LoadedSearchLabels(q) ==
    IF state_initialized /\ state_index # None
    THEN SearchLabels(Get(state_index), q, TOP_K_RETRIEVAL)
    ELSE {<<>>}

\* ----------------------------------------------------------------- requests
\* the endpoint name and path of each kind of request
EndpointOf(kind) ==
    CASE kind = "translate" -> "translate"
      [] kind = "ocr" -> "ocr"
      [] kind = "upload" -> "admin_upload"
      [] kind = "history" -> "admin"
      [] kind = "admin_cost" -> "admin"
      [] kind = "cost" -> "cost"

\* request.url.path
PathOf(kind) ==
    CASE kind = "translate" -> "/api/translate"
      [] kind = "ocr" -> "/api/ocr"
      [] kind = "upload" -> "/api/admin/glossary/upload"
      [] kind = "history" -> "/api/admin/history"
      [] kind = "admin_cost" -> "/api/admin/cost"
      [] kind = "cost" -> "/api/cost"

AdminKinds == {"upload", "history", "admin_cost"}

SetReq(r, fields) == [req EXCEPT ![r] = fields @@ req[r]]

\* a text arrives at detect_language
DetectStart ==
    /\ req[1].pc = "idle"
    /\ \E text \in LangTexts : req' = SetReq(1, [pc |-> "detect", text |-> text])
    /\ UNCHANGED <<now, rlVars, appVars, diskVars, search_out, costVars, hmVars, started>>

\* detect_language returns
DetectReturn ==
    /\ req[1].pc = "detect"
    /\ req' = SetReq(1, [pc |-> "detected",
                         lang |-> Some(detect_language(req[1].text))])
    /\ UNCHANGED <<now, rlVars, appVars, diskVars, search_out, costVars, hmVars, started>>

\* the caller has used the tag
DetectDone ==
    /\ req[1].pc = "detected"
    /\ req' = [req EXCEPT ![1] = IdleReq]
    /\ UNCHANGED <<now, rlVars, appVars, diskVars, search_out, costVars, hmVars, started>>

NextLang ==
    \/ DetectStart
    \/ DetectReturn
    \/ DetectDone

\* logging_and_security_middleware, up to `await call_next(request)`
StartRequest(r, kind, ip) ==
    /\ req[r].pc = "idle"
    /\ started < MaxRequests
    /\ started' = started + 1
    /\ req' = [req EXCEPT ![r] = [IdleReq EXCEPT !.pc = "dep", !.kind = kind, !.ip = ip,
                                     !.id = started + 1, !.start_time = now]]
    /\ UNCHANGED <<now, rlVars, appVars, diskVars, search_out, costVars, hmVars>>

\* the dependencies of the endpoint: require_admin_auth on the admin
\* endpoints (authOk: the token is the admin's), then rate_limit_dependency
Dependencies(r) ==
    /\ req[r].pc = "dep"
    /\ \E authOk \in BOOLEAN :
        LET endpoint == EndpointOf(req[r].kind)
            key == Key(req[r].ip, endpoint)
            limit == cfg_limit[endpoint]
        IN  /\ req[r].kind \notin AdminKinds => authOk
            /\ IF ~authOk
               THEN /\ req' = SetReq(r, [pc |-> "post", status |-> 401])
                    /\ UNCHANGED rate_limit_storage
               ELSE /\ rate_limit_storage' = IsAllowedStorage(key, limit, cfg_window)
                    /\ req' = IF IsAllowedResult(key, limit, cfg_window)
                              THEN SetReq(r, [pc |-> "handler"])
                              ELSE SetReq(r, [pc |-> "post", status |-> 429])
    /\ UNCHANGED <<now, cfg_limit, cfg_window, rl_calls, appVars, diskVars, search_out, costVars,
                   hmVars, started>>

\* the translate endpoint, for the text of the request body:
\* translate_text and the two except branches
HandleTranslate(r) ==
    /\ req[r].pc = "handler"
    /\ req[r].kind = "translate"
    /\ \E text \in Texts, scenario \in {"embedding_fails", "generation_fails", "ok"},
          logOk \in BOOLEAN, q \in Vectors, tokens \in UsageTokens :
       \E ids \in LoadedSearchLabels(q) :
        LET out == translate_text(text, cost_tracker, cost_log,
                                  scenario # "embedding_fails",
                                  scenario # "generation_fails",
                                  q, ids, tokens, logOk)
        IN  /\ cost_tracker' = out.cost
            /\ cost_log' = out.log
            /\ recent_errors' =
                 CASE out.raised = "http" ->
                        record_error(recent_errors, "http_error", "/api/translate",
                                     out.status, req[r].id)
                   [] out.raised = "exception" ->
                        record_error(recent_errors, "translation_error", "/api/translate",
                                     0, req[r].id)
                   [] OTHER -> recent_errors
            /\ req' = SetReq(r, [pc |-> "post", status |-> out.status,
                                 text |-> text, backends |-> out.backends,
                                 charged |-> out.cost # cost_tracker,
                                 logged |-> out.log # cost_log,
                                 failed_charge |-> out.failed_charge,
                                 snap |-> out.snap, tokens |-> out.tokens_used])
    /\ UNCHANGED <<now, rlVars, appVars, diskVars, search_out, recent_response_times,
                   alert_cooldown, alert_log, started>>

\* if response.status_code >= 400
MiddlewareRecords(status) == status >= 400

\* logging_and_security_middleware after call_next returned a response;
\* the response is sent and the slot is free for the next request
MiddlewareResponse(r) ==
    /\ req[r].pc = "post"
    /\ \E fileOk \in BOOLEAN :
        LET process_time == now - req[r].start_time
            path == PathOf(req[r].kind)
            alert == IF process_time > response_time_threshold
                     THEN trigger_alert(alert_cooldown, alert_log, "slow_response", fileOk)
                     ELSE [cooldown |-> alert_cooldown, log |-> alert_log]
        IN  /\ recent_response_times' =
                 DequeAppend(recent_response_times,
                     [timestamp |-> now, endpoint |-> path, response_time |-> process_time])
            /\ alert_cooldown' = alert.cooldown
            /\ alert_log' = alert.log
            /\ recent_errors' =
                 IF MiddlewareRecords(req[r].status)
                 THEN record_error(recent_errors,
                        IF req[r].status < 500 THEN "client_error" ELSE "server_error",
                        path, req[r].status, req[r].id)
                 ELSE recent_errors
    /\ req' = [req EXCEPT ![r] = IdleReq]
    /\ UNCHANGED <<now, rlVars, appVars, diskVars, search_out, costVars, started>>

\* two record_error calls in a row: the branch that rejects, then the
\* `except HTTPException` branch of the handler
RecordTwice(errors, first_type, path, status, rid) ==
    record_error(record_error(errors, first_type, path, 0, rid),
                 "http_error", path, status, rid)

OcrNeverChecksGlossary == FALSE

\* if not state.initialized, at the top of ocr_and_translate
OcrGlossaryMissing == ~state_initialized

\* ocr_and_translate up to `await file.read()`: the glossary check and the
\* checks of the content type and of the file name
HandleOcrChecks(r) ==
    /\ req[r].pc = "handler"
    /\ req[r].kind = "ocr"
    /\ \E upload \in {"ok", "bad_type", "bad_name"} :
        IF OcrGlossaryMissing
        THEN /\ recent_errors' = RecordTwice(recent_errors, "service_unavailable",
                                             "/api/ocr", 503, req[r].id)
             /\ req' = SetReq(r, [pc |-> "post", status |-> 503])
        ELSE IF upload # "ok"
        THEN /\ recent_errors' = RecordTwice(recent_errors, "validation_error",
                                             "/api/ocr", 400, req[r].id)
             /\ req' = SetReq(r, [pc |-> "post", status |-> 400])
        ELSE /\ recent_errors' = recent_errors
             /\ req' = SetReq(r, [pc |-> "read"])
    /\ UNCHANGED <<now, rlVars, appVars, diskVars, search_out, costVars, recent_response_times,
                   alert_cooldown, alert_log, started>>

\* extract_text_with_gpt_vision / extract_text_with_tesseract for the chosen
\* ocr_method: the text (stripped), or the exception raised
ExtractText(ct, method, callOk, content, tokens) ==
    CASE method = "gpt-vision" ->
           IF callOk
           THEN [raised |-> "none", cost |-> track_completion_cost(ct, tokens),
                 backends |-> {"vision"}, text |-> Strip(content)]
           ELSE [raised |-> "exception", cost |-> ct, backends |-> {"vision"},
                 text |-> <<>>]
      [] method = "tesseract" ->
           IF callOk
           THEN [raised |-> "none", cost |-> ct, backends |-> {}, text |-> Strip(content)]
           ELSE [raised |-> "http500", cost |-> ct, backends |-> {}, text |-> <<>>]
      [] OTHER -> [raised |-> "bad_method", cost |-> ct, backends |-> {}, text |-> <<>>]

\* ocr_and_translate after `await file.read()`: image validation, text
\* extraction, translate_text on the extracted text, the OCR usage log entry.
\* OcrEnds is the common end of every path through it.
OcrEnds(r, status, errors, ct, log, backends, failed_charge, text, snap) ==
    /\ recent_errors' = errors
    /\ cost_tracker' = ct
    /\ cost_log' = log
    /\ req' = SetReq(r, [pc |-> "post", status |-> status, backends |-> backends,
                         text |-> text, charged |-> ct # cost_tracker,
                         logged |-> log # cost_log, failed_charge |-> failed_charge,
                         snap |-> snap])

\* the paths that end before translate_text is called
OcrExtractionEnds(r, imageOk, ext) ==
    LET path == "/api/ocr"
        rid == req[r].id
    IN  IF ~imageOk
        THEN OcrEnds(r, 400, record_error(recent_errors, "http_error", path, 400, rid),
                     cost_tracker, cost_log, {}, FALSE, <<>>, None)
        ELSE IF ext.raised = "bad_method"
        THEN OcrEnds(r, 400,
                     RecordTwice(recent_errors, "validation_error", path, 400, rid),
                     cost_tracker, cost_log, {}, FALSE, <<>>, None)
        ELSE IF ext.raised = "http500"
        THEN OcrEnds(r, 500, record_error(recent_errors, "http_error", path, 500, rid),
                     cost_tracker, cost_log, {}, FALSE, <<>>, None)
        ELSE IF ext.raised = "exception"
        THEN OcrEnds(r, 500, record_error(recent_errors, "ocr_error", path, 0, rid),
                     ext.cost, cost_log, ext.backends, ext.cost # cost_tracker,
                     <<>>, None)
        ELSE /\ ext.text = <<>>
             /\ OcrEnds(r, 200, recent_errors, ext.cost, cost_log, ext.backends, FALSE,
                        ext.text, None)

OcrTranslateEndsHidesRejection(r, ext, out, logOk2) ==
    OcrEnds(r, 200, recent_errors, out.cost, out.log, ext.backends \cup out.backends,
            FALSE, ext.text, out.snap)

\* the paths through translate_text, for an extraction that returned a text
OcrTranslateEnds(r, ext, out, logOk2) ==
    LET path == "/api/ocr"
        rid == req[r].id
    IN  IF out.raised = "http"
        THEN OcrEnds(r, out.status,
                     record_error(recent_errors, "http_error", path, out.status, rid),
                     out.cost, out.log, ext.backends \cup out.backends,
                     out.failed_charge, ext.text, out.snap)
        ELSE IF out.raised = "exception"
        THEN OcrEnds(r, 500, record_error(recent_errors, "ocr_error", path, 0, rid),
                     out.cost, out.log, ext.backends \cup out.backends,
                     out.failed_charge, ext.text, out.snap)
        ELSE OcrEnds(r, 200, recent_errors, out.cost,
                     log_api_usage(out.log, out.cost, "/api/ocr", out.cost_estimate,
                                   out.tokens_used, "ocr", logOk2),
                     ext.backends \cup out.backends, FALSE, ext.text, out.snap)

HandleOcrTranslate(r) ==
    /\ req[r].pc = "read"
    /\ req[r].kind = "ocr"
    /\ \E imageOk, callOk \in BOOLEAN, method \in {"gpt-vision", "tesseract", "other"},
          content \in Texts, vtokens \in UsageTokens :
        LET ext == ExtractText(cost_tracker, method, callOk, content, vtokens)
        IN  IF imageOk /\ ext.raised = "none" /\ ext.text # <<>>
            THEN \E scenario \in {"embedding_fails", "generation_fails", "ok"},
                    logOk, logOk2 \in BOOLEAN, q \in Vectors, tokens \in UsageTokens :
                 \E ids \in LoadedSearchLabels(q) :
                    OcrTranslateEnds(r, ext,
                        translate_text(ext.text, ext.cost, cost_log,
                                       scenario # "embedding_fails",
                                       scenario # "generation_fails",
                                       q, ids, tokens, logOk),
                        logOk2)
            ELSE OcrExtractionEnds(r, imageOk, ext)
    /\ UNCHANGED <<now, rlVars, appVars, diskVars, search_out, recent_response_times,
                   alert_cooldown, alert_log, started>>

\* get_update_history: reading data/update_history.json can raise, and the
\* endpoint catches nothing (when the file is absent it returns [])
HandleHistory(r) ==
    /\ req[r].pc = "handler"
    /\ req[r].kind = "history"
    /\ \E readOk \in BOOLEAN :
        req' = IF readOk
               THEN SetReq(r, [pc |-> "post", status |-> 200])
               ELSE SetReq(r, [pc |-> "raised", status |-> 500])
    /\ UNCHANGED <<now, rlVars, appVars, diskVars, search_out, costVars, hmVars, started>>

\* logging_and_security_middleware when call_next raised: the except branch
MiddlewareException(r) ==
    /\ req[r].pc = "raised"
    /\ recent_errors' = record_error(recent_errors, "exception", PathOf(req[r].kind),
                                     0, req[r].id)
    /\ req' = [req EXCEPT ![r] = IdleReq]
    /\ UNCHANGED <<now, rlVars, appVars, diskVars, search_out, costVars, recent_response_times,
                   alert_cooldown, alert_log, started>>

\* the glossary a start-up load leaves behind
StartupGlossary == <<[english |-> "salt", arabic |-> "milh"]>>

\* the vector the embedding backend returns for a glossary row
EmbeddingOf(row) ==
    [d \in 1..EMBEDDING_DIMENSIONS |-> IF row.english = "salt" THEN 0 ELSE 1]

\* faiss.IndexFlatL2 after index.add(embeddings): one vector per row
BuildIndex(glossary) == [i \in 1..Len(glossary) |-> EmbeddingOf(glossary[i])]

\* after startup_event: the glossary was loaded, or nothing was found
InitReq ==
    /\ now = Epoch
    /\ cfg_limit = [e \in Endpoints |-> 1]
    /\ cfg_window = 1
    /\ rate_limit_storage = [k \in Keys |-> <<>>]
    /\ rl_calls = <<>>
    /\ \/ InitAppState /\ InitDisk
       \/ /\ state_index = Some(BuildIndex(StartupGlossary))
          /\ state_glossary = Some(StartupGlossary)
          /\ state_metadata = Some([created_at |-> Epoch, num_entries |-> 1])
          /\ state_initialized = TRUE
          /\ disk_index = state_index
          /\ disk_glossary = state_glossary
    /\ InitRest
    /\ search_out = None

ReqTick ==
    /\ now < Epoch + MaxReqTime
    /\ now' = now + 1
    /\ UNCHANGED <<rlVars, appVars, diskVars, search_out, costVars, hmVars, reqVars>>

\* the translate, OCR and history endpoints, one request after another
NextReq ==
    \/ ReqTick
    \/ \E kind \in {"translate", "ocr", "history"} : StartRequest(1, kind, "ip1")
    \/ Dependencies(1)
    \/ HandleTranslate(1)
    \/ HandleOcrChecks(1)
    \/ HandleOcrTranslate(1)
    \/ HandleHistory(1)
    \/ MiddlewareResponse(1)
    \/ MiddlewareException(1)

SpecReq == InitReq /\ [][NextReq]_vars

InitRL ==
    /\ now = Epoch
    /\ InitAppState
    /\ InitDisk
    /\ InitRest
    /\ search_out = None
    /\ cfg_limit \in {f \in [Endpoints -> 1..MaxLimit] :
                         f["admin"] = 1 /\ f["admin_upload"] = 1 /\ f["cost"] = 1}
    /\ cfg_window \in 1..MaxWindow
    /\ rate_limit_storage = [k \in Keys |-> <<>>]
    /\ rl_calls = <<>>

NextRL ==
    \/ Tick
    \/ \E ip \in IPs, endpoint \in RLEndpoints : IsAllowedCall(ip, endpoint)

SpecRL == InitRL /\ [][NextRL]_vars

\* --------------------------------------------------------------- C1, C2
CallsOf(key) == {i \in DOMAIN rl_calls : rl_calls[i].key = key}

LimitOf(key) == cfg_limit[key[2]]

\* call i opens a run: every earlier admitted call of its key has expired
RunStart(key, i) ==
    /\ i \in CallsOf(key)
    /\ \A h \in CallsOf(key) :
          (h < i /\ rl_calls[h].ok) => rl_calls[h].t < rl_calls[i].t - cfg_window

\* C1: in a run of calls for one key that all arrive within the window of the
\* run's first call, exactly the first `limit` calls are admitted and the later
\* ones rejected; a call arriving after the window has elapsed since every
\* admitted call opens a new run and is admitted again.
C1_FirstLimitAdmitted ==
    \A key \in Keys : \A i \in CallsOf(key) : RunStart(key, i) =>
        \A j \in CallsOf(key) :
            (j >= i /\ rl_calls[j].t - rl_calls[i].t <= cfg_window) =>
                (rl_calls[j].ok <=>
                    Cardinality({m \in CallsOf(key) : i <= m /\ m <= j}) <= LimitOf(key))

C1_Witness ==
    \E key \in Keys : \E i, j, m \in CallsOf(key) :
        /\ i < j /\ j < m
        /\ RunStart(key, i)
        /\ rl_calls[j].t - rl_calls[i].t <= cfg_window
        /\ ~rl_calls[j].ok
        /\ RunStart(key, m)
        /\ rl_calls[m].t > rl_calls[j].t
        /\ rl_calls[m].ok

\* C2: for every key and every interval [a, a + window], the admitted calls of
\* the key with a timestamp in the interval number at most the key's limit.
C2_SlidingWindow ==
    \A key \in Keys : \A a \in (Epoch - MaxWindow)..(Epoch + MaxTime) :
        Cardinality({i \in CallsOf(key) :
            /\ rl_calls[i].ok
            /\ a <= rl_calls[i].t
            /\ rl_calls[i].t <= a + cfg_window}) <= LimitOf(key)

\* a burst that straddles a fixed-bucket boundary (buckets counted from the
\* process start): a call rejected in a bucket that holds no admitted call yet
C2_Witness ==
    \E key \in Keys : \E i, j \in CallsOf(key) :
        /\ rl_calls[i].ok /\ rl_calls[i].t < Epoch + cfg_window /\ rl_calls[i].t > Epoch
        /\ ~rl_calls[j].ok /\ rl_calls[j].t >= Epoch + cfg_window
        /\ \A h \in CallsOf(key) :
              (h < j /\ rl_calls[h].ok) => rl_calls[h].t < Epoch + cfg_window

\* ------------------------------------------------------------------- C9
\* C9: the Retrieve step on an index of n >= 1 entries yields exactly
\* min(k, n) entries in non-decreasing distance order, no glossary row twice
\* and no padding label mapped to a glossary row.
C9_RetrieveExactlyMinKN ==
    search_out # None =>
        LET out == Get(search_out)
            m == Min(TOP_K_RETRIEVAL, out.n)
        IN  /\ Len(out.retrieved) = m
            /\ \A i \in 1..(Len(out.retrieved) - 1) : out.distances[i] <= out.distances[i + 1]
            /\ \A i, j \in 1..Len(out.retrieved) :
                   i # j => out.retrieved[i].pos # out.retrieved[j].pos
            /\ \A i \in 1..Len(out.labels) : out.labels[i] # PadLabel

\* ------------------------------------------------------------ glossary upload
\* rows of an uploaded sheet, before the cleaning
\* ("nan": str of an empty cell; "": a cell of blanks after str.strip)
RawRows == ValidRows \cup {[english |-> "nan", arabic |-> "milh"],
                           [english |-> "sugar", arabic |-> ""]}

\* what the uploaded file holds: a sheet of rows, or a file that is too
\* large, cannot be parsed, or has a single column
UploadFiles == {[kind |-> "sheet", rows |-> rows] : rows \in SeqsUpTo(RawRows, MaxRows)}
                   \cup {[kind |-> k, rows |-> <<>>] :
                            k \in {"too_large", "unreadable", "one_column"}}

KeepEveryRow(row) == TRUE

\* the filter on glossary['english'] and glossary['arabic']
KeepRow(row) == row.english \notin {"", "nan"} /\ row.arabic \notin {"", "nan"}

\* glossary['english'] + " | " + glossary['arabic']
Combined(row) == <<row.english, "|", row.arabic>>

\* the ledger after track_embedding_cost of each text of one batch
RECURSIVE TrackBatch(_, _)
TrackBatch(ct, rows) ==
    IF rows = <<>> THEN ct
    ELSE TrackBatch(track_embedding_cost(ct, Combined(Head(rows))), Tail(rows))

\* get_embeddings_batch for a glossary of at most one batch: the cost of every
\* text is tracked, then the backend is called (callOk: the call returns)
get_embeddings_batch(ct, rows, callOk) ==
    [ok |-> callOk, cost |-> TrackBatch(ct, rows), embeddings |-> BuildIndex(rows)]

\* how far save_glossary gets: it returns, or os.makedirs / faiss.write_index
\* raises, or to_pickle raises, or writing the metadata raises
SaveOutcomes == {"ok", "index_fails", "pickle_fails", "metadata_fails"}

\* AppState.save_glossary: the two files after it has run that far
save_glossary(index, glossary, saved) ==
    [index |-> IF saved = "index_fails" THEN disk_index ELSE Some(index),
     glossary |-> IF saved \in {"index_fails", "pickle_fails"}
                  THEN disk_glossary ELSE Some(glossary)]

PublishGlossaryOnFirstLoadOnly(old, new) == IF old = None THEN Some(new) ELSE old

\* state.glossary = glossary
PublishGlossary(old, new) == Some(new)

\* upload_glossary up to `await file.read()`: the checks of the content type
\* and of the file name
HandleUploadChecks(r) ==
    /\ req[r].pc = "handler"
    /\ req[r].kind = "upload"
    /\ \E upload \in {"ok", "bad_type", "bad_name"} :
        req' = IF upload = "ok"
               THEN SetReq(r, [pc |-> "read"])
               ELSE SetReq(r, [pc |-> "post", status |-> 400])
    /\ UNCHANGED <<now, rlVars, appVars, diskVars, search_out, costVars, hmVars, started>>

\* the upload ends with `status`, the state and the ledger left alone
UploadEnds(r, status, file) ==
    /\ req' = SetReq(r, [pc |-> "post", status |-> status, file |-> Some(file)])
    /\ UNCHANGED <<appVars, diskVars, cost_tracker>>

\* upload_glossary after `await file.read()`: parse, clean, embed, build the
\* index, publish it, save it, write the history
HandleUploadRebuild(r) ==
    /\ req[r].pc = "read"
    /\ req[r].kind = "upload"
    /\ \E file \in UploadFiles,
          scenario \in {"embedding_fails", "history_fails"} \cup SaveOutcomes :
        LET glossary == SelectSeq(file.rows, KeepRow)
            emb == get_embeddings_batch(cost_tracker, glossary,
                                        scenario # "embedding_fails")
            saved == IF scenario \in SaveOutcomes THEN scenario ELSE "ok"
            disk == save_glossary(emb.embeddings, glossary, saved)
        IN  IF file.kind \in {"too_large", "one_column"} THEN UploadEnds(r, 400, file)
            ELSE IF file.kind = "unreadable" THEN UploadEnds(r, 500, file)
            ELSE IF Len(glossary) = 0 THEN UploadEnds(r, 400, file)
            ELSE IF ~emb.ok
            THEN /\ cost_tracker' = emb.cost
                 /\ req' = SetReq(r, [pc |-> "post", status |-> 500,
                                      backends |-> {"embedding"}, charged |-> TRUE,
                                      failed_charge |-> TRUE, file |-> Some(file)])
                 /\ UNCHANGED <<appVars, diskVars>>
            ELSE /\ cost_tracker' = emb.cost
                 /\ state_index' = Some(emb.embeddings)
                 /\ state_glossary' = PublishGlossary(state_glossary, glossary)
                 /\ state_metadata' = Some([created_at |-> now,
                                            num_entries |-> Len(glossary)])
                 /\ state_initialized' = TRUE
                 /\ disk_index' = disk.index
                 /\ disk_glossary' = disk.glossary
                 /\ req' = SetReq(r, [pc |-> "post",
                                      status |-> IF scenario = "ok" THEN 200 ELSE 500,
                                      backends |-> {"embedding"}, charged |-> TRUE,
                                      file |-> Some(file)])
    /\ UNCHANGED <<now, rlVars, search_out, cost_log, hmVars, started>>

\* translate requests and glossary uploads, overlapping
NextSwap ==
    \/ \E r \in Slots, kind \in {"translate", "upload"} : StartRequest(r, kind, "ip1")
    \/ \E r \in Slots : Dependencies(r)
    \/ \E r \in Slots : HandleTranslate(r)
    \/ \E r \in Slots : HandleUploadChecks(r)
    \/ \E r \in Slots : HandleUploadRebuild(r)
    \/ \E r \in Slots : MiddlewareResponse(r)

SpecSwap == InitReq /\ [][NextSwap]_vars

\* ------------------------------------------------------------ start-up load
\* data/ProductList.xlsx at start-up: a sheet of rows, or a file that cannot
\* be parsed or has a single column
ExcelFiles == {file \in UploadFiles : file.kind # "too_large"}

\* AppState.load_excel_glossary: whether it raises, and the state, the
\* ledger and the files it leaves (callOk: the embedding call returns; saved:
\* how far save_glossary gets)
load_excel_glossary(file, callOk, saved) ==
    LET glossary == SelectSeq(file.rows, KeepRow)
        emb == get_embeddings_batch(cost_tracker, glossary, callOk)
        disk == save_glossary(emb.embeddings, glossary, saved)
        untouched == [raised |-> TRUE, index |-> state_index,
                      glossary |-> state_glossary, metadata |-> state_metadata,
                      initialized |-> state_initialized, cost |-> cost_tracker,
                      disk_index |-> disk_index, disk_glossary |-> disk_glossary]
    IN  IF file.kind \in {"unreadable", "one_column"} THEN untouched
        ELSE IF Len(glossary) = 0 THEN untouched
        ELSE IF ~emb.ok THEN [untouched EXCEPT !.cost = emb.cost]
        ELSE [raised |-> saved # "ok",
              index |-> Some(emb.embeddings),
              glossary |-> Some(glossary),
              metadata |-> Some([created_at |-> now, num_entries |-> Len(glossary)]),
              initialized |-> TRUE,
              cost |-> emb.cost,
              disk_index |-> disk.index,
              disk_glossary |-> disk.glossary]

\* AppState.load_glossary: the processed glossary if both of its files are on
\* disk, read back as they are; else ProductList.xlsx if it is there
\* (product_list); every exception is logged and swallowed
load_glossary(product_list, file, callOk, saved) ==
    IF disk_index # None /\ disk_glossary # None
    THEN [raised |-> FALSE, index |-> disk_index, glossary |-> disk_glossary,
          metadata |-> Some([created_at |-> Epoch,
                             num_entries |-> Len(Get(disk_glossary))]),
          initialized |-> TRUE, cost |-> cost_tracker,
          disk_index |-> disk_index, disk_glossary |-> disk_glossary]
    ELSE IF product_list
    THEN [load_excel_glossary(file, callOk, saved) EXCEPT !.raised = FALSE]
    ELSE [raised |-> FALSE, index |-> state_index, glossary |-> state_glossary,
          metadata |-> state_metadata, initialized |-> state_initialized,
          cost |-> cost_tracker,
          disk_index |-> disk_index, disk_glossary |-> disk_glossary]

\* startup_event: state.load_glossary(), before the first request
StartupLoad ==
    /\ started = 0
    /\ ~state_initialized
    /\ cost_tracker = ZeroCost
    /\ \E product_list \in BOOLEAN, file \in ExcelFiles,
          callOk \in BOOLEAN, saved \in SaveOutcomes :
        LET out == load_glossary(product_list, file, callOk, saved)
        IN  /\ state_index' = out.index
            /\ state_glossary' = out.glossary
            /\ state_metadata' = out.metadata
            /\ state_initialized' = out.initialized
            /\ cost_tracker' = out.cost
            /\ disk_index' = out.disk_index
            /\ disk_glossary' = out.disk_glossary
    /\ UNCHANGED <<now, rlVars, search_out, cost_log, hmVars, reqVars>>

\* the process as constructed, before startup_event
InitLoad ==
    /\ now = Epoch
    /\ cfg_limit = [e \in Endpoints |-> 1]
    /\ cfg_window = 1
    /\ rate_limit_storage = [k \in Keys |-> <<>>]
    /\ rl_calls = <<>>
    /\ InitAppState
    /\ \/ InitDisk
       \/ /\ disk_index = Some(BuildIndex(StartupGlossary))
          /\ disk_glossary = Some(StartupGlossary)
    /\ InitRest
    /\ search_out = None

\* startup_event has run: requests are served after it, and it would have
\* loaded a processed glossary whose two files are on disk
StartupDone == state_initialized \/ disk_index = None \/ disk_glossary = None

\* the start-up load, then glossary uploads one after another
NextLoad ==
    \/ StartupLoad
    \/ StartupDone /\ \E ip \in IPs : StartRequest(1, "upload", ip)
    \/ Dependencies(1)
    \/ HandleUploadChecks(1)
    \/ HandleUploadRebuild(1)
    \/ MiddlewareResponse(1)

SpecLoad == InitLoad /\ [][NextLoad]_vars

\* a worker exits (gunicorn recycles its workers: max_requests) and its
\* successor is constructed: the files stay, the objects of the process start
\* anew, and startup_event runs next
Restart ==
    /\ started > 0
    /\ \A r \in Slots : req[r].pc = "idle"
    /\ state_index' = None
    /\ state_glossary' = None
    /\ state_metadata' = None
    /\ state_initialized' = FALSE
    /\ cost_tracker' = ZeroCost
    /\ recent_errors' = <<>>
    /\ recent_response_times' = <<>>
    /\ alert_cooldown' = [a \in AlertTypes |-> 0]
    /\ rate_limit_storage' = [k \in Keys |-> <<>>]
    /\ started' = 0
    /\ UNCHANGED <<now, cfg_limit, cfg_window, rl_calls, diskVars, search_out,
                   cost_log, alert_log, req>>

\* the start-up load and uploads, across restarts of the process
NextRestart ==
    \/ NextLoad
    \/ Restart

SpecRestart == InitLoad /\ [][NextRestart]_vars

\* ------------------------------------------------ the usage log, called directly
\* log_api_usage for the call numbered started + 1 (its tokens_used). outcome:
\* the file is read and rewritten; reading or opening it raises and the file
\* stays as it was; or open(..., 'w') has truncated it when json.dump raises,
\* and the next call reads the damaged file as an empty log
LogCall(outcome) ==
    /\ started < MaxRecords
    /\ started' = started + 1
    /\ cost_log' =
         IF outcome = "dump_fails" THEN <<>>
         ELSE log_api_usage(cost_log, cost_tracker, "/api/translate", 0, started + 1,
                            "translation", outcome = "ok")
    /\ UNCHANGED <<now, rlVars, appVars, diskVars, search_out, cost_tracker, hmVars, req>>

\* log_api_usage called as time passes
NextLog ==
    \/ Tick
    \/ \E outcome \in {"ok", "open_fails", "dump_fails"} : LogCall(outcome)

SpecLog == InitReq /\ [][NextLog]_vars

\* --------------------------------------- translate_text, statement by statement
\* the pipeline steps a call has completed are kept in req[r].steps

\* request r completes `step` and moves to `pc`
StepTo(r, step, pc, fields) ==
    SetReq(r, [pc |-> pc, steps |-> Append(req[r].steps, step)] @@ fields)

\* request r raises: no further statement of translate_text runs
FailTo(r, status) ==
    SetReq(r, [pc |-> "pipe_fail", status |-> status,
               steps |-> Append(req[r].steps, "Fail")])

\* translate(): result = translate_text(translate_request.text)
PipeStart(r, text) ==
    /\ req[r].pc = "handler"
    /\ req[r].kind = "translate"
    /\ req' = SetReq(r, [pc |-> "pipe_validate", text |-> text])
    /\ UNCHANGED <<now, rlVars, appVars, diskVars, search_out, costVars, hmVars, started>>

\* if not state.initialized: raise 503; query = sanitize_text_input(query)
PipeValidate(r) ==
    /\ req[r].pc = "pipe_validate"
    /\ LET san == sanitize_text_input(req[r].text)
       IN  req' = IF ~state_initialized THEN FailTo(r, 503)
                  ELSE IF ~san.ok THEN FailTo(r, 400)
                  ELSE StepTo(r, "Validate", "pipe_track_embedding", [text |-> san.text])
    /\ UNCHANGED <<now, rlVars, appVars, diskVars, search_out, costVars, hmVars, started>>

\* get_single_embedding: track_embedding_cost(text), ahead of the backend call
PipeTrackEmbedding(r) ==
    /\ req[r].pc = "pipe_track_embedding"
    /\ cost_tracker' = track_embedding_cost(cost_tracker, Strip(req[r].text))
    /\ req' = SetReq(r, [pc |-> "pipe_embed", charged |-> TRUE])
    /\ UNCHANGED <<now, rlVars, appVars, diskVars, search_out, cost_log, hmVars, started>>

\* get_single_embedding: client.embeddings.create(...) returns or raises
PipeEmbed(r) ==
    /\ req[r].pc = "pipe_embed"
    /\ \E callOk \in BOOLEAN :
        req' = IF callOk
               THEN StepTo(r, "Embed", "pipe_retrieve", [backends |-> {"embedding"}])
               ELSE [FailTo(r, 500) EXCEPT ![r].backends = {"embedding"}]
    /\ UNCHANGED <<now, rlVars, appVars, diskVars, search_out, costVars, hmVars, started>>

\* state.index.search(...); retrieved = state.glossary.iloc[indices[0]]
PipeRetrieve(r) ==
    /\ req[r].pc = "pipe_retrieve"
    /\ \E q \in Vectors : \E ids \in LoadedSearchLabels(q) :
        LET out == Retrieve(Get(state_index), Get(state_glossary), q, ids)
        IN  req' = StepTo(r, "Retrieve", "pipe_compose",
                          [snap |-> Some([index |-> Get(state_index),
                                          glossary |-> Get(state_glossary),
                                          n |-> Len(out.retrieved)])])
    /\ UNCHANGED <<now, rlVars, appVars, diskVars, search_out, costVars, hmVars, started>>

\* context and prompt are built from the retrieved rows
PipeCompose(r) ==
    /\ req[r].pc = "pipe_compose"
    /\ req' = StepTo(r, "Compose", "pipe_generate", <<>>)
    /\ UNCHANGED <<now, rlVars, appVars, diskVars, search_out, costVars, hmVars, started>>

\* client.chat.completions.create(...) returns with its usage, or raises
PipeGenerate(r) ==
    /\ req[r].pc = "pipe_generate"
    /\ \E callOk \in BOOLEAN, tokens \in UsageTokens :
        req' = IF callOk
               THEN StepTo(r, "Generate", "pipe_account",
                           [backends |-> req[r].backends \cup {"generation"},
                            tokens |-> tokens])
               ELSE [FailTo(r, 500) EXCEPT
                        ![r].backends = req[r].backends \cup {"generation"}]
    /\ UNCHANGED <<now, rlVars, appVars, diskVars, search_out, costVars, hmVars, started>>

\* track_completion_cost(...); request_cost; log_api_usage(...)
PipeAccount(r) ==
    /\ req[r].pc = "pipe_account"
    /\ \E logOk \in BOOLEAN :
        LET ct2 == track_completion_cost(cost_tracker, req[r].tokens)
            request_cost == Round6(count_tokens(req[r].text) * 20 + req[r].tokens * 150)
        IN  /\ cost_tracker' = ct2
            /\ cost_log' = log_api_usage(cost_log, ct2, "/api/translate", request_cost,
                                         req[r].tokens, "translation", logOk)
            /\ req' = StepTo(r, "Account", "pipe_respond",
                             [logged |-> cost_log' # cost_log])
    /\ UNCHANGED <<now, rlVars, appVars, diskVars, search_out, hmVars, started>>

\* return {...}; return TranslateResponse(**result)
PipeRespond(r) ==
    /\ req[r].pc = "pipe_respond"
    /\ req' = StepTo(r, "Respond", "post", [status |-> 200])
    /\ UNCHANGED <<now, rlVars, appVars, diskVars, search_out, costVars, hmVars, started>>

\* the except branches of translate(): the error is recorded and re-raised
PipeFail(r) ==
    /\ req[r].pc = "pipe_fail"
    /\ recent_errors' =
         IF req[r].status = 500
         THEN record_error(recent_errors, "translation_error", "/api/translate",
                           0, req[r].id)
         ELSE record_error(recent_errors, "http_error", "/api/translate",
                           req[r].status, req[r].id)
    /\ req' = SetReq(r, [pc |-> "post"])
    /\ UNCHANGED <<now, rlVars, appVars, diskVars, search_out, costVars, recent_response_times,
                   alert_cooldown, alert_log, started>>

\* translate requests one after another, translate_text one statement a step
NextPipe ==
    \/ \E ip \in IPs : StartRequest(1, "translate", ip)
    \/ Dependencies(1)
    \/ \E text \in Texts : PipeStart(1, text)
    \/ PipeValidate(1)
    \/ PipeTrackEmbedding(1)
    \/ PipeEmbed(1)
    \/ PipeRetrieve(1)
    \/ PipeCompose(1)
    \/ PipeGenerate(1)
    \/ PipeAccount(1)
    \/ PipeRespond(1)
    \/ PipeFail(1)
    \/ MiddlewareResponse(1)

SpecPipe == InitReq /\ [][NextPipe]_vars

\* ------------------------------------------- the rate limiter under threads
\* rate_limit_dependency is reached through a plain lambda, which FastAPI runs
\* in its thread pool: is_allowed calls of requests in flight interleave
\* between the loop test, popleft, the length check and append.

\* is_allowed is entered: key, now = time.time(), requests = storage[key]
ThreadCall(r, kind, ip) ==
    /\ req[r].pc = "idle"
    /\ Len(rl_calls) + Cardinality({q \in Slots : req[q].pc # "idle"}) < MaxCalls
    /\ req' = [req EXCEPT ![r] = [IdleReq EXCEPT !.pc = "rl_prune", !.kind = kind,
                                     !.ip = ip, !.rl_now = now]]
    /\ UNCHANGED <<now, rlVars, appVars, diskVars, search_out, costVars, hmVars, started>>

\* while requests and requests[0] < now - window
ThreadPruneTest(r) ==
    /\ req[r].pc = "rl_prune"
    /\ LET requests == rate_limit_storage[Key(req[r].ip, EndpointOf(req[r].kind))]
       IN  req' = IF requests # <<>> /\ Expired(Head(requests), req[r].rl_now, cfg_window)
                  THEN SetReq(r, [pc |-> "rl_pop"])
                  ELSE SetReq(r, [pc |-> "rl_check"])
    /\ UNCHANGED <<now, rlVars, appVars, diskVars, search_out, costVars, hmVars, started>>

\* requests.popleft(); IndexError on a deque another thread has emptied
ThreadPopleft(r) ==
    /\ req[r].pc = "rl_pop"
    /\ LET key == Key(req[r].ip, EndpointOf(req[r].kind))
           requests == rate_limit_storage[key]
       IN  IF requests = <<>>
           THEN /\ req' = [req EXCEPT ![r] = IdleReq]
                /\ rl_calls' = Append(rl_calls, [key |-> key, t |-> req[r].rl_now,
                                                 ok |-> FALSE])
                /\ UNCHANGED rate_limit_storage
           ELSE /\ rate_limit_storage' = [rate_limit_storage EXCEPT ![key] = Tail(requests)]
                /\ req' = SetReq(r, [pc |-> "rl_prune"])
                /\ UNCHANGED rl_calls
    /\ UNCHANGED <<now, cfg_limit, cfg_window, appVars, diskVars, search_out, costVars, hmVars,
                   started>>

\* if len(requests) >= limit: return False
ThreadCheck(r) ==
    /\ req[r].pc = "rl_check"
    /\ LET endpoint == EndpointOf(req[r].kind)
           key == Key(req[r].ip, endpoint)
       IN  IF LimitExceeded(rate_limit_storage[key], cfg_limit[endpoint])
           THEN /\ req' = [req EXCEPT ![r] = IdleReq]
                /\ rl_calls' = Append(rl_calls, [key |-> key, t |-> req[r].rl_now,
                                                 ok |-> FALSE])
           ELSE /\ req' = SetReq(r, [pc |-> "rl_append"])
                /\ UNCHANGED rl_calls
    /\ UNCHANGED <<now, cfg_limit, cfg_window, rate_limit_storage, appVars, diskVars, search_out,
                   costVars, hmVars, started>>

\* requests.append(now); return True
ThreadAppend(r) ==
    /\ req[r].pc = "rl_append"
    /\ LET key == Key(req[r].ip, EndpointOf(req[r].kind))
       IN  /\ rate_limit_storage' =
                [rate_limit_storage EXCEPT ![key] = Append(@, req[r].rl_now)]
           /\ rl_calls' = Append(rl_calls, [key |-> key, t |-> req[r].rl_now, ok |-> TRUE])
    /\ req' = [req EXCEPT ![r] = IdleReq]
    /\ UNCHANGED <<now, cfg_limit, cfg_window, appVars, diskVars, search_out, costVars, hmVars,
                   started>>

\* is_allowed calls of one caller on one endpoint, in thread-pool threads
NextThreads ==
    \/ Tick
    \/ \E r \in Slots : ThreadCall(r, "translate", "ip1")
    \/ \E r \in Slots : ThreadPruneTest(r)
    \/ \E r \in Slots : ThreadPopleft(r)
    \/ \E r \in Slots : ThreadCheck(r)
    \/ \E r \in Slots : ThreadAppend(r)

SpecThreads == InitRL /\ [][NextThreads]_vars

\* ------------------------------------------------------------- health check
RECURSIVE SumTimes(_)
SumTimes(samples) ==
    IF samples = <<>> THEN 0 ELSE Head(samples).response_time + SumTimes(Tail(samples))

\* HealthMonitor.get_avg_response_time, as the fraction num / den
get_avg_response_time(times, window) ==
    IF times = <<>> THEN [num |-> 0, den |-> 1]
    ELSE LET recent == SelectSeq(times, LAMBDA rt : rt.timestamp > now - window)
         IN  IF recent = <<>> THEN [num |-> 0, den |-> 1]
             ELSE [num |-> SumTimes(recent), den |-> Len(recent)]

\* error_rate < alert_thresholds["error_rate_threshold"]
ErrorRateHealthy(rate) == rate.num * 10 < error_rate_threshold_tenths * rate.den

\* avg_response_time < alert_thresholds["response_time_threshold"]
ResponseTimeHealthy(avg) == avg.num < response_time_threshold * avg.den

\* what check_system_health finds outside the monitor: the API key, psutil
\* (missing: ImportError; raises: any other exception), the resources above
\* their thresholds, the data directory
HealthEnvs ==
    {[openai |-> o, psutil |-> "ok", high |-> {}, data_dir |-> TRUE] : o \in BOOLEAN}
    \cup {[openai |-> TRUE, psutil |-> "ok", high |-> h, data_dir |-> TRUE] :
             h \in {{"memory"}, {"cpu"}, {"disk"}, {"memory", "cpu", "disk"}}}
    \cup {[openai |-> TRUE, psutil |-> p, high |-> {}, data_dir |-> TRUE] :
             p \in {"missing", "raises"}}
    \cup {[openai |-> TRUE, psutil |-> "ok", high |-> {"disk"}, data_dir |-> FALSE]}

\* one entry of health_status["checks"]; degrades: the branch that sets
\* overall_status to "degraded" and triggers `alert` is taken
Check(name, healthy, bad_status, degrades, alert) ==
    [name |-> name, status |-> IF healthy THEN "healthy" ELSE bad_status,
     degrades |-> degrades, alert |-> alert]

\* the memory, cpu and disk checks, or system_resources when psutil is missing
ResourceChecks(env) ==
    IF env.psutil = "missing"
    THEN <<[name |-> "system_resources", status |-> "unknown",
            degrades |-> FALSE, alert |-> "none"]>>
    ELSE IF env.psutil = "raises" THEN <<>>
    ELSE <<Check("memory", "memory" \notin env.high, "warning",
                 "memory" \in env.high, "high_memory"),
           Check("cpu", "cpu" \notin env.high, "warning",
                 "cpu" \in env.high, "high_cpu")>>
         \o (IF env.data_dir
             THEN <<Check("disk", "disk" \notin env.high, "warning",
                          "disk" \in env.high, "high_disk")>>
             ELSE <<>>)

\* the error_rate and response_time checks
MonitorChecks ==
    LET rate == get_error_rate(recent_errors, recent_response_times, error_window)
        avg == get_avg_response_time(recent_response_times, error_window)
    IN  <<Check("error_rate", ErrorRateHealthy(rate), "warning",
                ~ErrorRateHealthy(rate), "high_error_rate"),
          Check("response_time", ResponseTimeHealthy(avg), "warning",
                ~ResponseTimeHealthy(avg) /\ avg.num > 0, "slow_response_avg")>>

OverallAfterKeeps(overall, degrades) == overall

\* if not <check>_healthy: health_status["overall_status"] = "degraded"
OverallAfter(overall, degrades) == IF degrades THEN "degraded" ELSE overall

RECURSIVE OverallOf(_, _)
OverallOf(overall, checks) ==
    IF checks = <<>> THEN overall
    ELSE OverallOf(OverallAfter(overall, Head(checks).degrades), Tail(checks))

\* HealthMonitor.check_system_health: the checks in the order they are made,
\* overall_status, and the alert types passed to _trigger_alert in order
check_system_health(env) ==
    LET glossary_healthy == state_initialized /\ state_glossary # None
        first == <<Check("glossary", glossary_healthy, "unhealthy",
                         ~glossary_healthy, "glossary_error"),
                   Check("openai_api", env.openai, "unhealthy",
                         ~env.openai, "openai_api_error")>>
        raised == env.psutil = "raises"
        made == first \o ResourceChecks(env) \o (IF raised THEN <<>> ELSE MonitorChecks)
        degrading == SelectSeq(made, LAMBDA c : c.degrades)
    IN  [overall_status |-> IF raised THEN "error" ELSE OverallOf("healthy", made),
         checks |-> IF raised
                    THEN made \o <<[name |-> "health_check", status |-> "error",
                                    degrades |-> FALSE, alert |-> "none"]>>
                    ELSE made,
         alerts |-> [i \in 1..Len(degrading) |-> degrading[i].alert]]

\* the _trigger_alert calls of one check_system_health, in order
RECURSIVE TriggerAll(_, _, _, _)
TriggerAll(cooldown, alog, types, fileOk) ==
    IF types = <<>> THEN [cooldown |-> cooldown, log |-> alog]
    ELSE LET out == trigger_alert(cooldown, alog, Head(types), fileOk)
         IN  TriggerAll(out.cooldown, out.log, Tail(types), fileOk)

\* ------------------------------------------------- the monitor, called directly
HMTick ==
    /\ now < Epoch + MaxHMTime
    /\ now' = now + 1
    /\ UNCHANGED <<rlVars, appVars, diskVars, search_out, costVars, hmVars, reqVars>>

\* health_monitor.record_error(...)
HMRecordError ==
    /\ Len(recent_errors) < MaxSamples
    /\ recent_errors' = record_error(recent_errors, "server_error", "/api/translate", 500, 0)
    /\ UNCHANGED <<now, rlVars, appVars, diskVars, search_out, costVars, recent_response_times,
                   alert_cooldown, alert_log, reqVars>>

\* health_monitor.record_response_time(endpoint, response_time)
HMRecordResponseTime(response_time) ==
    /\ Len(recent_response_times) < MaxSamples
    /\ \E fileOk \in BOOLEAN :
        LET alert == IF response_time > response_time_threshold
                     THEN trigger_alert(alert_cooldown, alert_log, "slow_response", fileOk)
                     ELSE [cooldown |-> alert_cooldown, log |-> alert_log]
        IN  /\ Len(alert.log) <= MaxAlerts
            /\ alert_cooldown' = alert.cooldown
            /\ alert_log' = alert.log
    /\ recent_response_times' =
         DequeAppend(recent_response_times,
             [timestamp |-> now, endpoint |-> "/api/translate",
              response_time |-> response_time])
    /\ UNCHANGED <<now, rlVars, appVars, diskVars, search_out, costVars, recent_errors, reqVars>>

\* health_monitor._trigger_alert(alert_type, message)
HMTriggerAlert(alert_type) ==
    /\ \E fileOk \in BOOLEAN :
        LET alert == trigger_alert(alert_cooldown, alert_log, alert_type, fileOk)
        IN  /\ Len(alert.log) <= MaxAlerts
            /\ alert_cooldown' = alert.cooldown
            /\ alert_log' = alert.log
    /\ UNCHANGED <<now, rlVars, appVars, diskVars, search_out, costVars, recent_errors,
                   recent_response_times, reqVars>>

\* health_monitor.check_system_health()
HMCheckSystemHealth ==
    /\ \E env \in HealthEnvs, fileOk \in BOOLEAN :
        LET alert == TriggerAll(alert_cooldown, alert_log,
                                check_system_health(env).alerts, fileOk)
        IN  /\ Len(alert.log) <= MaxAlerts
            /\ alert_cooldown' = alert.cooldown
            /\ alert_log' = alert.log
    /\ UNCHANGED <<now, rlVars, appVars, diskVars, search_out, costVars, recent_errors,
                   recent_response_times, reqVars>>

\* health_monitor.record_error(...) of the request numbered started + 1
BufRecordError ==
    /\ started < MaxRecords
    /\ started' = started + 1
    /\ recent_errors' = record_error(recent_errors, "server_error", "/api/translate",
                                     500, started + 1)
    /\ UNCHANGED <<now, rlVars, appVars, diskVars, search_out, costVars, recent_response_times,
                   alert_cooldown, alert_log, req>>

\* health_monitor.record_response_time(endpoint, response_time)
BufRecordResponseTime(response_time) ==
    /\ \E fileOk \in BOOLEAN :
        LET alert == IF response_time > response_time_threshold
                     THEN trigger_alert(alert_cooldown, alert_log, "slow_response", fileOk)
                     ELSE [cooldown |-> alert_cooldown, log |-> alert_log]
        IN  /\ alert_cooldown' = alert.cooldown
            /\ alert_log' = alert.log
    /\ recent_response_times' =
         DequeAppend(recent_response_times,
             [timestamp |-> now, endpoint |-> "/api/translate",
              response_time |-> response_time])
    /\ UNCHANGED <<now, rlVars, appVars, diskVars, search_out, costVars, recent_errors, reqVars>>

\* samples recorded past the capacity of the buffers
NextBuf ==
    \/ HMTick
    \/ BufRecordError
    \/ \E response_time \in {0, 2} : BufRecordResponseTime(response_time)

SpecBuf == InitReq /\ [][NextBuf]_vars

\* samples recorded and health checks run as time passes
NextHealth ==
    \/ HMTick
    \/ HMRecordError
    \/ \E response_time \in {0, 2} : HMRecordResponseTime(response_time)
    \/ HMCheckSystemHealth

SpecHealth == InitReq /\ [][NextHealth]_vars

\* _trigger_alert called for two alert types as time passes
NextAlert ==
    \/ Tick
    \/ \E alert_type \in {"slow_response", "high_error_rate"} : HMTriggerAlert(alert_type)

SpecAlert == InitReq /\ [][NextAlert]_vars

\* the process starts with time.time() anywhere from 0 (a host whose clock was
\* never set) up to Epoch
InitAnyClock ==
    /\ now \in 0..Epoch
    /\ cfg_limit = [e \in Endpoints |-> 1]
    /\ cfg_window = 1
    /\ rate_limit_storage = [k \in Keys |-> <<>>]
    /\ rl_calls = <<>>
    /\ InitAppState
    /\ InitDisk
    /\ InitRest
    /\ search_out = None

SpecAnyClock == InitAnyClock /\ [][NextAlert]_vars

\* ------------------------------------------------------ production start-up
\* the JSON object GET /api/health answers with: check_system_health()'s
\* dictionary (overall_status, checks, alerts, timestamp) updated with the
\* service information, or the minimal object of the except branch
health_check(env, updateOk) ==
    IF updateOk
    THEN [overall_status |-> check_system_health(env).overall_status,
          checks |-> check_system_health(env).checks,
          alerts |-> check_system_health(env).alerts,
          service |-> "FoodLang AI API",
          version |-> "1.0.0",
          glossary |-> [loaded |-> state_initialized]]
    ELSE [status |-> "error", service |-> "FoodLang AI API", version |-> "1.0.0",
          error |-> "Health check failed"]

\* dict.get(key): None when the key is absent
DictGet(d, key) == IF key \in DOMAIN d THEN Some(d[key]) ELSE None

\* the aggregate status an answer of the health endpoint reports
AggregateOf(body) ==
    IF "overall_status" \in DOMAIN body THEN body.overall_status ELSE body.status

\* response.status_code == 200 and health_data.get("status") in ["healthy", "degraded"]
HealthCheckPasses(code, body) ==
    code = 200 /\ DictGet(body, "status") \in {Some("healthy"), Some("degraded")}

\* start_production_server: subprocess.Popen(cmd), time.sleep(5), and
\* wait_for_health_check up to its loop: start_time = time.time()
StartProductionServer ==
    /\ req[1].pc = "idle"
    /\ req' = SetReq(1, [pc |-> "wait_loop", kind |-> "start_production",
                         start_time |-> now])
    /\ UNCHANGED <<now, rlVars, appVars, diskVars, search_out, costVars, hmVars, started>>

\* while time.time() - start_time < timeout
WaitLoopTest ==
    /\ req[1].pc = "wait_loop"
    /\ req' = SetReq(1, [pc |-> IF now - req[1].start_time < health_timeout
                                THEN "wait_get" ELSE "wait_false"])
    /\ UNCHANGED <<now, rlVars, appVars, diskVars, search_out, costVars, hmVars, started>>

\* requests.get(health_url, timeout=5) raises (the server is not up, or does
\* not answer in time): the except branch logs it
WaitGetRaises ==
    /\ req[1].pc = "wait_get"
    /\ req' = SetReq(1, [pc |-> "wait_sleep",
                         steps |-> Append(req[1].steps, [code |-> 0, aggregate |-> "none"])])
    /\ UNCHANGED <<now, rlVars, appVars, diskVars, search_out, costVars, hmVars, started>>

\* requests.get(health_url, timeout=5) returns the answer of health_check,
\* which has run check_system_health and its alerts on the server
WaitGetAnswered ==
    /\ req[1].pc = "wait_get"
    /\ \E env \in HealthEnvs, fileOk \in BOOLEAN, updateOk \in BOOLEAN :
        LET body == health_check(env, updateOk)
            alert == TriggerAll(alert_cooldown, alert_log,
                                check_system_health(env).alerts, fileOk)
        IN  /\ Len(alert.log) <= MaxAlerts
            /\ alert_cooldown' = alert.cooldown
            /\ alert_log' = alert.log
            /\ req' = SetReq(1, [pc |-> IF HealthCheckPasses(200, body)
                                        THEN "wait_true" ELSE "wait_sleep",
                                 status |-> 200,
                                 steps |-> Append(req[1].steps,
                                     [code |-> 200, aggregate |-> AggregateOf(body)])])
    /\ UNCHANGED <<now, rlVars, appVars, diskVars, search_out, costVars, recent_errors,
                   recent_response_times, started>>

\* time.sleep(2)
WaitSleep ==
    /\ req[1].pc = "wait_sleep"
    /\ now' = now + 1
    /\ req' = SetReq(1, [pc |-> "wait_loop"])
    /\ UNCHANGED <<rlVars, appVars, diskVars, search_out, costVars, hmVars, started>>

\* wait_for_health_check has returned: start_production_server returns the
\* process, or terminates it and returns None
StartReturns ==
    /\ req[1].pc \in {"wait_true", "wait_false"}
    /\ req' = SetReq(1, [pc |-> IF req[1].pc = "wait_true"
                                THEN "returned_process" ELSE "terminated"])
    /\ UNCHANGED <<now, rlVars, appVars, diskVars, search_out, costVars, hmVars, started>>

NextStart ==
    \/ StartProductionServer
    \/ WaitLoopTest
    \/ WaitGetRaises
    \/ WaitGetAnswered
    \/ WaitSleep
    \/ StartReturns

SpecStart == InitReq /\ [][NextStart]_vars

\* ------------------------------------------------------ the external monitor
\* how a health check of monitor_health.py can end short of a 200 answer:
\* another status code, requests.exceptions.Timeout, ConnectionError, or any
\* other exception (response.json() raising included)
FailureKinds == {"non_200", "timeout", "connection_error", "exception"}

\* _analyze_health_data: whether the answer has issues, and whether one of
\* them holds a critical keyword of should_alert ("error", "not loaded"):
\* 'System status: error', an unhealthy check named error_rate, 'Glossary
\* not loaded'
analyze_health_data(body) ==
    LET overall_status == IF "overall_status" \in DOMAIN body
                          THEN body.overall_status ELSE "unknown"
        checks == IF "checks" \in DOMAIN body THEN body.checks ELSE <<>>
        loaded == IF "glossary" \in DOMAIN body THEN body.glossary.loaded ELSE FALSE
        bad == {i \in DOMAIN checks : checks[i].status # "healthy"}
    IN  [issues |-> overall_status # "healthy" \/ bad # {} \/ ~loaded,
         critical |-> \/ overall_status = "error"
                      \/ \E i \in bad : checks[i].name \in {"error_rate", "health_check"}
                      \/ ~loaded]

FailureAlertAfterThreshold(consecutive_failures) ==
    consecutive_failures > max_consecutive_failures

\* return self.consecutive_failures >= self.max_consecutive_failures
FailureAlert(consecutive_failures) ==
    consecutive_failures >= max_consecutive_failures

\* monitor_health.main: HealthMonitor(args.api_url), run_continuous_monitoring
MonitorStart ==
    /\ req[1].pc = "idle"
    /\ req' = SetReq(1, [pc |-> "monitor_check", kind |-> "monitor",
                         consecutive_failures |-> 0])
    /\ UNCHANGED <<now, rlVars, appVars, diskVars, search_out, costVars, hmVars, started>>

\* check_health when the request does not end in a 200 answer with a JSON
\* body: self.consecutive_failures += 1
CheckHealthFails(failure) ==
    /\ req[1].pc = "monitor_check"
    /\ Len(req[1].steps) < MaxChecks
    /\ req' = SetReq(1, [pc |-> "monitor_alert",
                         consecutive_failures |-> req[1].consecutive_failures + 1,
                         body |-> None,
                         steps |-> Append(req[1].steps,
                             [success |-> FALSE,
                              consecutive_failures |-> req[1].consecutive_failures + 1,
                              alerted |-> FALSE])])
    /\ UNCHANGED <<now, rlVars, appVars, diskVars, search_out, costVars, hmVars, started>>

\* check_health when health_check answers with 200: the server has run
\* check_system_health and its alerts; self.consecutive_failures = 0
CheckHealthSucceeds ==
    /\ req[1].pc = "monitor_check"
    /\ Len(req[1].steps) < MaxChecks
    /\ \E env \in HealthEnvs, fileOk \in BOOLEAN, updateOk \in BOOLEAN :
        LET alert == TriggerAll(alert_cooldown, alert_log,
                                check_system_health(env).alerts, fileOk)
        IN  /\ Len(alert.log) <= MaxAlerts
            /\ alert_cooldown' = alert.cooldown
            /\ alert_log' = alert.log
            /\ req' = SetReq(1, [pc |-> "monitor_alert",
                                 consecutive_failures |-> 0,
                                 body |-> Some(analyze_health_data(
                                                   health_check(env, updateOk))),
                                 steps |-> Append(req[1].steps,
                                     [success |-> TRUE,
                                      consecutive_failures |-> 0,
                                      alerted |-> FALSE])])
    /\ UNCHANGED <<now, rlVars, appVars, diskVars, search_out, costVars, recent_errors,
                   recent_response_times, started>>

\* should_alert(health_result) for the check just made; an issue whose text
\* is not modelled may or may not hold a critical keyword
should_alert(success, analysis, consecutive_failures) ==
    IF ~success THEN {FailureAlert(consecutive_failures)}
    ELSE IF Get(analysis).critical THEN {TRUE}
    ELSE IF Get(analysis).issues THEN BOOLEAN
    ELSE {FALSE}

\* if self.should_alert(health_result): self.send_alert(health_result);
\* then time.sleep(interval_seconds)
MonitorAlertAndSleep ==
    /\ req[1].pc = "monitor_alert"
    /\ LET n == Len(req[1].steps)
       IN  \E alert \in should_alert(req[1].steps[n].success, req[1].body,
                                     req[1].consecutive_failures) :
             req' = SetReq(1, [pc |-> "monitor_check",
                               steps |-> [req[1].steps EXCEPT ![n].alerted = alert]])
    /\ UNCHANGED <<now, rlVars, appVars, diskVars, search_out, costVars, hmVars, started>>

NextMonitor ==
    \/ MonitorStart
    \/ \E failure \in FailureKinds : CheckHealthFails(failure)
    \/ CheckHealthSucceeds
    \/ MonitorAlertAndSleep

SpecMonitor == InitReq /\ [][NextMonitor]_vars

\* ------------------------------------------------------------ cost endpoints
SnapshotCountsItself(ct) == [ct EXCEPT !.completion_requests = @ + 1]

\* calculate_costs and the cost endpoints only read state.cost_tracker
LedgerAfterSnapshot(ct) == ct

\* the body get_session_cost returns
SessionCost(ct) ==
    [session_cost |-> calculate_costs(ct).total_cost,
     total_calls |-> ct.embedding_requests + ct.completion_requests,
     embedding_tokens |-> calculate_costs(ct).embedding_tokens,
     completion_tokens |-> calculate_costs(ct).completion_tokens]

\* get_session_cost (/api/cost) and get_cost_breakdown (/api/admin/cost)
HandleCost(r) ==
    /\ req[r].pc = "handler"
    /\ req[r].kind \in {"cost", "admin_cost"}
    /\ cost_tracker' = LedgerAfterSnapshot(cost_tracker)
    /\ req' = SetReq(r, [pc |-> "post", status |-> 200,
                         body |-> IF req[r].kind = "cost"
                                  THEN Some(SessionCost(cost_tracker))
                                  ELSE Some(calculate_costs(cost_tracker))])
    /\ UNCHANGED <<now, rlVars, appVars, diskVars, search_out, cost_log, hmVars, started>>

\* translate, cost and history requests of two callers, overlapping
NextCost ==
    \/ \E r \in Slots, kind \in {"translate", "cost", "admin_cost", "history"},
          ip \in IPs : StartRequest(r, kind, ip)
    \/ \E r \in Slots : Dependencies(r)
    \/ \E r \in Slots : HandleTranslate(r)
    \/ \E r \in Slots : HandleCost(r)
    \/ \E r \in Slots : HandleHistory(r)
    \/ \E r \in Slots : MiddlewareResponse(r)
    \/ \E r \in Slots : MiddlewareException(r)

SpecCost == InitReq /\ [][NextCost]_vars

\* ----------------------------------------------------------------- C3 - C8
\* a step of request r's handler
HandlerStep(r) == req[r].pc \in {"handler", "read"} /\ req'[r].pc # req[r].pc

\* C3: a translate or OCR call handled while the glossary is not loaded ends
\* with status 503, with no backend call made and the cost ledger as it was.
C3_NotLoadedIs503 ==
    [][\A r \in Slots :
        (HandlerStep(r) /\ req[r].kind \in {"translate", "ocr"} /\ ~state_initialized)
            => /\ req'[r].pc = "post"
               /\ req'[r].status = 503
               /\ req'[r].backends = {}
               /\ cost_tracker' = cost_tracker
               /\ cost_log' = cost_log]_vars

C3_Witness ==
    \E r \in Slots :
        /\ ~state_initialized
        /\ req[r].pc = "post" /\ req[r].kind = "ocr"
        /\ req[r].status = 503 /\ req[r].backends = {}

\* the text is empty, or empty once cleaned
EmptyText(text) == text = <<>> \/ Strip(RemoveNul(text)) = <<>>

\* C4 as claimed: a translate call whose text is empty, whitespace-only after
\* sanitising, or longer than the maximum length is rejected with 400 before
\* the embedding or the generation backend is called.
C4_BadTextIs400 ==
    [][\A r \in Slots :
        (HandlerStep(r) /\ req[r].kind = "translate"
         /\ (EmptyText(req'[r].text) \/ Len(req'[r].text) > max_length))
            => req'[r].status = 400 /\ req'[r].backends = {}]_vars

\* C4 as amended: a translate call made while the glossary is loaded, whose
\* text is empty, or is empty or longer than the maximum length once the null
\* bytes are removed and the surrounding whitespace stripped, is rejected with
\* 400 before the embedding or the generation backend is called.
C4_BadCleanedTextIs400 ==
    [][\A r \in Slots :
        (HandlerStep(r) /\ req[r].kind = "translate" /\ state_initialized
         /\ (EmptyText(req'[r].text) \/ Len(Strip(RemoveNul(req'[r].text))) > max_length))
            => req'[r].status = 400 /\ req'[r].backends = {}]_vars

C4_Witness ==
    \E r \in Slots :
        /\ state_initialized
        /\ req[r].pc = "post" /\ req[r].kind = "translate"
        /\ req[r].text # <<>> /\ Strip(RemoveNul(req[r].text)) = <<>>
        /\ req[r].status = 400 /\ req[r].backends = {}

\* C5: no request holds a charge for a backend call that failed: when an
\* embedding or generation call raises, the cost counters are what they were
\* when the operation making the call began.
C5_NoChargeForFailedCall ==
    \A r \in Slots : ~req[r].failed_charge

\* C6 as claimed: a request rejected by validation (400) or by admission
\* control (429) has changed neither the cost counters nor the usage log.
C6_RejectedLeavesLedger ==
    \A r \in Slots :
        (req[r].pc = "post" /\ req[r].status \in {400, 429})
            => ~req[r].charged /\ ~req[r].logged

\* C6 as amended: such a request has not changed the usage log, and has
\* changed the cost counters only if it is an OCR request whose vision call
\* completed before the extracted text was rejected; no embedding or
\* generation call was made.
C6_RejectedLeavesLedgerButVision ==
    \A r \in Slots :
        (req[r].pc = "post" /\ req[r].status \in {400, 429})
            => /\ ~req[r].logged
               /\ req[r].backends \subseteq {"vision"}
               /\ req[r].charged => (req[r].kind = "ocr" /\ req[r].backends = {"vision"})

C6_Witness ==
    \E r \in Slots :
        /\ req[r].pc = "post" /\ req[r].status = 429
        /\ ~req[r].charged /\ ~req[r].logged
        /\ cost_tracker # ZeroCost

\* the sample was recorded for a request rejected by validation (400) or by
\* the rate limit (429)
RejectionSample(e) == e.type = "validation_error" \/ e.status \in {400, 429}

NotRejectionSample(e) == ~RejectionSample(e)

\* C7: the samples of rejected requests do not count as system errors:
\* get_error_rate is what it would be without them.
C7_ClientErrorsNotCounted ==
    get_error_rate(recent_errors, recent_response_times, error_window)
        = get_error_rate(SelectSeq(recent_errors, NotRejectionSample),
                         recent_response_times, error_window)

\* C8: when a request that failed with a backend error or an unexpected
\* exception (a 5xx) is returned, the monitor holds an error sample of it.
C8_FailureHasSample ==
    [][\A r \in Slots :
        (req[r].pc \in {"post", "raised"} /\ req'[r].pc = "idle" /\ req[r].status >= 500)
            => \E i \in DOMAIN recent_errors' : recent_errors'[i].rid = req[r].id]_vars

C8_Witness ==
    \E r \in Slots :
        /\ req[r].pc = "post" /\ req[r].status = 500
        /\ "generation" \in req[r].backends
        /\ \E i \in DOMAIN recent_errors :
              recent_errors[i].rid = req[r].id /\ recent_errors[i].type = "translation_error"

\* the index of the snapshot was built from the glossary of the snapshot
Consistent(s) == s.index = BuildIndex(s.glossary)

\* C10: every retrieval, also one of a request that overlaps a glossary
\* upload, searched an index and mapped the labels to a glossary that belong
\* together: the pair from before the upload or the pair the upload published.
C10_RetrievalSeesOnePair ==
    \A r \in Slots : req[r].snap # None => Consistent(Get(req[r].snap))

\* a translate request that started before an upload did, and retrieved from
\* the pair that upload published
C10_Witness ==
    \E r, u \in Slots :
        /\ req[r].kind = "translate" /\ req[u].kind = "upload"
        /\ req[r].id < req[u].id
        /\ req[u].pc = "post" /\ req[u].status = 200
        /\ req[r].snap # None
        /\ Get(req[r].snap).glossary = Get(state_glossary)
        /\ Get(req[r].snap).glossary # StartupGlossary

\* ---------------------------------------------------------------- C11 - C13
\* request r's handler returns a cost snapshot in this step
CostStep(r) == HandlerStep(r) /\ req[r].kind \in {"cost", "admin_cost"}

\* C11: no step leaves a channel's call counter incremented with its token
\* counter as it was (the pair is incremented within one step of the event
\* loop), and a cost snapshot is computed from the ledger as it stands
\* between such steps.
C11_SnapshotSeesWholePairs ==
    [][/\ (cost_tracker'.embedding_requests # cost_tracker.embedding_requests)
              => cost_tracker'.embedding_tokens > cost_tracker.embedding_tokens
       /\ (cost_tracker'.completion_requests # cost_tracker.completion_requests)
              => cost_tracker'.completion_tokens > cost_tracker.completion_tokens
       /\ \A r \in Slots :
            (CostStep(r) /\ req[r].kind = "cost")
                => req'[r].body = Some(SessionCost(cost_tracker))]_vars

\* a cost snapshot taken while a translate request that has tracked both
\* channels is still in flight
C11_Witness ==
    \E r, t \in Slots :
        /\ req[r].kind = "cost" /\ req[r].pc = "post"
        /\ req[t].kind = "translate" /\ req[t].pc = "post" /\ req[t].status = 200
        /\ req[t].id < req[r].id
        /\ Get(req[r].body).total_calls = 2
        /\ Get(req[r].body).embedding_tokens > 0
        /\ Get(req[r].body).completion_tokens = req[t].tokens

\* what the track calls of a finished translate handler add to the ledger
ExpectedGrowth(q) ==
    LET embedded == "embedding" \in q.backends
        completed == q.status = 200
    IN  [embedding_requests |-> IF embedded THEN 1 ELSE 0,
         embedding_tokens |-> IF embedded THEN Len(Strip(RemoveNul(q.text))) ELSE 0,
         completion_requests |-> IF completed THEN 1 ELSE 0,
         completion_tokens |-> IF completed THEN q.tokens ELSE 0]

Plus(ct, d) ==
    [embedding_requests |-> ct.embedding_requests + d.embedding_requests,
     embedding_tokens |-> ct.embedding_tokens + d.embedding_tokens,
     completion_requests |-> ct.completion_requests + d.completion_requests,
     completion_tokens |-> ct.completion_tokens + d.completion_tokens]

\* C12: no lost update: whatever requests overlap, every translate handler
\* adds exactly its own track calls to the ledger it finds (one call and the
\* text's tokens per embedding, one call and usage.total_tokens per
\* completion), and no other step changes the ledger; so the counters grow by
\* exactly the sums.
C12_NoLostUpdate ==
    [][IF \E r \in Slots : HandlerStep(r) /\ req[r].kind = "translate"
       THEN \A r \in Slots :
              (HandlerStep(r) /\ req[r].kind = "translate")
                  => cost_tracker' = Plus(cost_tracker, ExpectedGrowth(req'[r]))
       ELSE cost_tracker' = cost_tracker]_vars

\* two overlapping translate requests, both tracked in full
C12_Witness ==
    /\ \A r \in Slots :
          req[r].kind = "translate" /\ req[r].pc = "post" /\ req[r].status = 200
    /\ cost_tracker.completion_requests = NumSlots
    /\ cost_tracker.embedding_requests = NumSlots
    /\ \E r, t \in Slots :
          /\ r # t
          /\ cost_tracker.completion_tokens = req[r].tokens + req[t].tokens

\* no track call since the snapshot `body` was taken
NoTrackSince(body) ==
    /\ body.embedding_tokens = cost_tracker.embedding_tokens
    /\ body.completion_tokens = cost_tracker.completion_tokens

\* C13: a cost snapshot changes no state but the response it returns, and it
\* equals every earlier snapshot of the same endpoint taken with no track
\* call in between.
C13_SnapshotPureIdempotent ==
    [][\A r \in Slots :
        CostStep(r)
            => /\ UNCHANGED <<now, rlVars, appVars, diskVars, search_out, costVars, hmVars, started>>
               /\ \A t \in Slots \ {r} :
                     (/\ req[t].kind = req[r].kind /\ req[t].pc = "post"
                      /\ req[t].status = 200 /\ NoTrackSince(Get(req[t].body)))
                         => req'[r].body = req[t].body]_vars

\* two overlapping cost requests that returned the same snapshot
C13_Witness ==
    \E r, t \in Slots :
        /\ r # t
        /\ req[r].kind = "cost" /\ req[r].pc = "post"
        /\ req[t].kind = "cost" /\ req[t].pc = "post"
        /\ req[r].body = req[t].body
        /\ req[r].body = Some(SessionCost(cost_tracker))

\* ---------------------------------------------------------------------- C14
\* the alerts of type a raised so far
AlertsOf(a) == {i \in DOMAIN alert_log : alert_log[i].type = a}

\* an alert of type a was raised within the cooldown window before now
InCooldown(a) ==
    \E i \in AlertsOf(a) : now - alert_log[i].timestamp <= alert_cooldown_duration

\* C14: two alerts of one type are always more than the cooldown apart; a
\* _trigger_alert call for a type raised within the cooldown window raises no
\* further alert, and a call for a type whose cooldown has elapsed (or that
\* was never raised) raises exactly one.
C14_OneAlertPerCooldown ==
    /\ \A a \in AlertTypes : \A i, j \in AlertsOf(a) :
          i < j => alert_log[j].timestamp - alert_log[i].timestamp > alert_cooldown_duration
    /\ \A a \in AlertTypes, fileOk \in BOOLEAN :
          LET out == trigger_alert(alert_cooldown, alert_log, a, fileOk)
          IN  IF InCooldown(a)
              THEN out.log = alert_log
              ELSE /\ Len(out.log) = Len(alert_log) + 1
                   /\ out.log[Len(out.log)].type = a
                   /\ out.log[Len(out.log)].timestamp = now

\* a type raised, then suppressed until the cooldown elapsed, then raised again
C14_Witness ==
    \E i, j \in DOMAIN alert_log :
        /\ i < j
        /\ alert_log[i].type = alert_log[j].type
        /\ alert_log[j].timestamp = alert_log[i].timestamp + alert_cooldown_duration + 1
        /\ now = alert_log[j].timestamp

\* the statuses of the checks map returned by one health check
StatusesOf(h) == {h.checks[i].status : i \in DOMAIN h.checks}

\* C15 (as stated): check_system_health returns "healthy" exactly when every
\* entry of its checks map has status "healthy", and "degraded" otherwise,
\* never a third value.
C15_HealthyIffAllHealthy ==
    \A env \in HealthEnvs :
        LET h == check_system_health(env)
        IN  /\ h.overall_status = "healthy" <=> StatusesOf(h) \subseteq {"healthy"}
            /\ h.overall_status \in {"healthy", "degraded"}

\* C15 (amended): overall_status is "healthy" exactly when every check is
\* "healthy" or "unknown" (psutil not installed), "degraded" exactly when some
\* check is "unhealthy" or "warning" and the health check ran to its end, and
\* "error" exactly when an exception interrupted it (the health_check entry).
C15_OverallFromChecks ==
    \A env \in HealthEnvs :
        LET h == check_system_health(env)
            interrupted == \E i \in DOMAIN h.checks : h.checks[i].name = "health_check"
        IN  /\ h.overall_status \in {"healthy", "degraded", "error"}
            /\ h.overall_status = "error" <=> interrupted
            /\ interrupted <=> "error" \in StatusesOf(h)
            /\ h.overall_status = "healthy" <=> StatusesOf(h) \subseteq {"healthy", "unknown"}
            /\ h.overall_status = "degraded" <=>
                  /\ ~interrupted
                  /\ StatusesOf(h) \cap {"unhealthy", "warning"} # {}

\* a health check has raised the alert of a failed check, and in this state
\* the three outcomes all occur: healthy with an unknown check, degraded, error
C15_Witness ==
    /\ \E i \in DOMAIN alert_log :
          alert_log[i].type \in {"glossary_error", "openai_api_error", "high_memory",
                                 "high_cpu", "high_disk", "high_error_rate",
                                 "slow_response_avg"}
    /\ \E env \in HealthEnvs :
          /\ check_system_health(env).overall_status = "healthy"
          /\ "unknown" \in StatusesOf(check_system_health(env))
    /\ \E env \in HealthEnvs : check_system_health(env).overall_status = "degraded"
    /\ \E env \in HealthEnvs : check_system_health(env).overall_status = "error"

\* the latency samples newer than the cutoff of get_error_rate's window
RecentTimes(times, window) ==
    SelectSeq(times, LAMBDA rt : rt.timestamp > now - window)

\* C16: get_error_rate(w) is the number of buffered error samples newer than
\* now - w divided by the number of buffered latency samples newer than the
\* same cutoff (stated where both counts are positive, as num / den).
C16_ErrorRateOverRecentLatency ==
    LET rate == get_error_rate(recent_errors, recent_response_times, error_window)
        errors == Len(RecentErrors(recent_errors, error_window))
        times == Len(RecentTimes(recent_response_times, error_window))
    IN  errors > 0 /\ times > 0 => rate.num * times = errors * rate.den

\* the checks that do not read the monitor's sample buffers
StructuralChecks == {"glossary", "openai_api", "memory", "cpu", "disk"}

\* C17: with no error and no latency sample recorded, get_error_rate and
\* get_avg_response_time return 0.0, the error_rate and response_time checks
\* of every health check are healthy and raise no alert, and overall_status is
\* "degraded" only when a structural check is not healthy.
C17_EmptyBuffersHealthy ==
    recent_errors = <<>> /\ recent_response_times = <<>> =>
        /\ get_error_rate(recent_errors, recent_response_times, error_window).num = 0
        /\ get_error_rate(recent_errors, recent_response_times, error_window).den > 0
        /\ get_avg_response_time(recent_response_times, error_window).num = 0
        /\ get_avg_response_time(recent_response_times, error_window).den > 0
        /\ \A env \in HealthEnvs :
              LET h == check_system_health(env)
              IN  /\ \A i \in DOMAIN h.checks :
                        h.checks[i].name \in {"error_rate", "response_time"}
                            => h.checks[i].status = "healthy"
                  /\ \A i \in DOMAIN h.alerts :
                        h.alerts[i] \notin {"high_error_rate", "slow_response_avg"}
                  /\ h.overall_status = "degraded" =>
                        \E i \in DOMAIN h.checks :
                            /\ h.checks[i].name \in StructuralChecks
                            /\ h.checks[i].status # "healthy"

\* a health check ran on empty buffers and raised the alert of a structural
\* check; a degraded health check of this state made both monitor checks
C17_Witness ==
    /\ recent_errors = <<>> /\ recent_response_times = <<>>
    /\ \E i \in DOMAIN alert_log : alert_log[i].type = "glossary_error"
    /\ \E env \in HealthEnvs :
          LET h == check_system_health(env)
          IN  /\ h.overall_status = "degraded"
              /\ \E i \in DOMAIN h.checks : h.checks[i].name = "error_rate"
              /\ \E j \in DOMAIN h.checks : h.checks[j].name = "response_time"

\* request r passes through its dependencies in this step
DepStep(r) == req[r].pc = "dep" /\ req'[r].pc # "dep"

\* the window kept for a caller under an endpoint name
WindowOf(storage, ip, endpoint) == storage[<<ip, endpoint>>]

\* the exposed endpoints of the cost specification
ExposedKinds == {"translate", "cost", "admin_cost", "history"}

\* C18 (as stated): the admission check of a request to one exposed endpoint
\* never changes the window its caller has for a different exposed endpoint,
\* and the check is rejected only on the request's own traffic.
C18_RoutesIndependent ==
    [][\A r \in Slots : DepStep(r) =>
          \A kind \in ExposedKinds \ {req[r].kind} :
              WindowOf(rate_limit_storage', req[r].ip, EndpointOf(kind))
                  = WindowOf(rate_limit_storage, req[r].ip, EndpointOf(kind))]_vars

\* C18 (amended): budgets are independent per rate-limit name, not per route.
\* The admission check of a request changes only the window of (caller, name
\* of its endpoint), is rejected only when that window already holds the
\* limit and admitted only when it does not; the admin routes are all registered under the name "admin" and
\* share that window.
C18_NamesIndependent ==
    [][\A r \in Slots : DepStep(r) =>
          LET name == EndpointOf(req[r].kind)
              own == Prune(WindowOf(rate_limit_storage, req[r].ip, name), now, cfg_window)
          IN  /\ \A ip \in IPs, e \in Endpoints :
                    (ip # req[r].ip \/ e # name) =>
                        WindowOf(rate_limit_storage', ip, e)
                            = WindowOf(rate_limit_storage, ip, e)
              /\ req'[r].status = 429 => Len(own) >= cfg_limit[name]
              /\ req'[r].pc = "handler" => Len(own) < cfg_limit[name]
              /\ \A kind \in ExposedKinds :
                    EndpointOf(kind) = name <=>
                        (kind = req[r].kind \/ {kind, req[r].kind} \subseteq AdminKinds)]_vars

\* one caller is being served on the history route, is rejected on the cost
\* breakdown route (same name "admin"), and its translate and cost windows
\* are untouched
C18_Witness ==
    \E r1, r2 \in Slots :
        /\ req[r1].kind = "history" /\ req[r1].pc = "handler"
        /\ req[r2].kind = "admin_cost" /\ req[r2].status = 429
        /\ req[r1].ip = req[r2].ip
        /\ WindowOf(rate_limit_storage, req[r1].ip, "translate") = <<>>
        /\ WindowOf(rate_limit_storage, req[r1].ip, "cost") = <<>>

\* the call is_allowed(ip, endpoint) made in this step returned False
RejectedCall(key) ==
    /\ Len(rl_calls') = Len(rl_calls) + 1
    /\ rl_calls'[Len(rl_calls')].key = key
    /\ ~rl_calls'[Len(rl_calls')].ok

\* C19: a call of is_allowed that returns False appends no timestamp: the
\* key's window afterwards is the window before without its expired front
\* timestamps, it still holds the limit, and no other window changes.
C19_RejectedRecordsNothing ==
    [][\A key \in Keys : RejectedCall(key) =>
          LET old == rate_limit_storage[key]
              new == rate_limit_storage'[key]
          IN  /\ new = Prune(old, now, cfg_window)
              /\ \E n \in 0..Len(old) :
                    /\ new = SubSeq(old, n + 1, Len(old))
                    /\ \A i \in 1..n : old[i] < now - cfg_window
              /\ Len(new) >= cfg_limit[key[2]]
              /\ \A k \in Keys \ {key} :
                    rate_limit_storage'[k] = rate_limit_storage[k]]_vars

\* a key of limit 1 admitted, rejected at a later time, and admitted again as
\* soon as the first timestamp left the window
C19_Witness ==
    \E key \in Keys : \E i, j, m \in CallsOf(key) :
        /\ cfg_limit[key[2]] = 1
        /\ i < j /\ j < m
        /\ rl_calls[i].ok /\ ~rl_calls[j].ok /\ rl_calls[m].ok
        /\ rl_calls[j].t > rl_calls[i].t
        /\ rl_calls[m].t = rl_calls[i].t + cfg_window + 1

\* a corpus with fewer than 2 columns, or with no row whose two text fields
\* are both non-empty
BadCorpus(file) ==
    \/ file.kind = "one_column"
    \/ /\ file.kind = "sheet"
       /\ \A i \in DOMAIN file.rows :
             file.rows[i].english \in {"", "nan"} \/ file.rows[i].arabic \in {"", "nan"}

\* request r leaves upload_glossary's rebuild in this step
UploadStep(r) == req[r].kind = "upload" /\ req[r].pc = "read" /\ req'[r].pc = "post"

\* C20: load_excel_glossary raises for a corpus with fewer than 2 columns or
\* no valid row and leaves the state and the ledger as they were;
\* upload_glossary answers such a corpus with 400, calls no embedding backend
\* and leaves the state and the ledger as they were; and the glossary that is
\* published is never empty, holds valid rows only and has one index vector
\* per row.
C20_BadCorpusRejected ==
    /\ [](\A file \in ExcelFiles, callOk \in BOOLEAN, saved \in SaveOutcomes :
            BadCorpus(file) =>
                LET out == load_excel_glossary(file, callOk, saved)
                IN  /\ out.raised
                    /\ out.index = state_index
                    /\ out.glossary = state_glossary
                    /\ out.metadata = state_metadata
                    /\ out.initialized = state_initialized
                    /\ out.cost = cost_tracker)
    /\ [](state_glossary # None =>
            /\ Len(Get(state_glossary)) > 0
            /\ \A i \in DOMAIN Get(state_glossary) : Get(state_glossary)[i] \in ValidRows
            /\ state_index = Some(BuildIndex(Get(state_glossary)))
            /\ state_initialized)
    /\ [][\A r \in Slots :
            UploadStep(r) /\ BadCorpus(Get(req'[r].file)) =>
                /\ req'[r].status = 400
                /\ req'[r].backends = {}
                /\ UNCHANGED appVars
                /\ cost_tracker' = cost_tracker]_vars

\* the start-up load published a glossary, and an upload of a sheet whose
\* rows are all invalid was answered with 400 and left it in place
C20_Witness ==
    \E r \in Slots :
        /\ req[r].kind = "upload" /\ req[r].pc = "post" /\ req[r].status = 400
        /\ req[r].file # None
        /\ Get(req[r].file).kind = "sheet"
        /\ Len(Get(req[r].file).rows) = MaxRows
        /\ BadCorpus(Get(req[r].file))
        /\ state_glossary # None
        /\ Len(Get(state_glossary)) = MaxRows
        /\ Get(state_metadata).created_at = Epoch

\* C21: however the is_allowed calls of concurrent requests on one key
\* interleave, the admitted calls of the key whose timestamps lie within one
\* window of an admitted call number at most the key's limit.
C21_ConcurrentWindowBound ==
    \A key \in Keys : \A i \in CallsOf(key) :
        rl_calls[i].ok =>
            Cardinality({j \in CallsOf(key) :
                /\ rl_calls[j].ok
                /\ rl_calls[i].t - cfg_window <= rl_calls[j].t
                /\ rl_calls[j].t <= rl_calls[i].t}) <= LimitOf(key)

\* the timestamps stored for a key
StoredOf(key) == {rate_limit_storage[key][i] : i \in DOMAIN rate_limit_storage[key]}

\* the time of the latest is_allowed call for a key that has been called
LastCallOf(key) ==
    rl_calls[CHOOSE i \in CallsOf(key) : \A j \in CallsOf(key) : j <= i].t

\* C22 (as stated): in every reachable state every timestamp stored for a
\* key lies within [now - window, now].
C22_TimestampsInWindow ==
    \A key \in Keys : \A ts \in StoredOf(key) : now - cfg_window <= ts /\ ts <= now

\* C22 (amended): the window is pruned only by a call for its key. Every
\* stored timestamp lies within [t - window, t] for the time t of the latest
\* is_allowed call for the key, and is never later than now; a key that was
\* never called stores nothing.
C22_TimestampsInWindowOfLastCall ==
    \A key \in Keys :
        IF CallsOf(key) = {} THEN rate_limit_storage[key] = <<>>
        ELSE \A ts \in StoredOf(key) :
                /\ LastCallOf(key) - cfg_window <= ts
                /\ ts <= LastCallOf(key)
                /\ ts <= now

\* a key called again after its first timestamp expired, which the second
\* call pruned; the clock has since moved past the second call
C22_Witness ==
    \E key \in Keys : \E i, j \in CallsOf(key) :
        /\ i < j /\ rl_calls[i].ok /\ rl_calls[j].ok
        /\ rl_calls[j].t - rl_calls[i].t > cfg_window
        /\ rate_limit_storage[key] = <<rl_calls[j].t>>
        /\ now > rl_calls[j].t

\* C23 (as stated): in every reachable state the timestamps stored for a key
\* are strictly increasing from front to back.
C23_StrictlyIncreasing ==
    \A key \in Keys : \A i, j \in DOMAIN rate_limit_storage[key] :
        i < j => rate_limit_storage[key][i] < rate_limit_storage[key][j]

\* C23 (amended): the timestamps stored for a key are non-decreasing from
\* front to back (two calls that read the same clock value store it twice),
\* and every step leaves a window as it was or trims it from the front and
\* appends at most the current time at the back.
C23_NonDecreasingAppendTrim ==
    /\ [](\A key \in Keys : \A i, j \in DOMAIN rate_limit_storage[key] :
            i < j => rate_limit_storage[key][i] <= rate_limit_storage[key][j])
    /\ [][\A key \in Keys :
            LET old == rate_limit_storage[key]
                new == rate_limit_storage'[key]
            IN  \E n \in 0..Len(old) :
                    LET kept == SubSeq(old, n + 1, Len(old))
                    IN  new = kept \/ new = Append(kept, now)]_vars

\* a window of two distinct timestamps whose older predecessor was trimmed
\* from the front by the call that appended the newest
C23_Witness ==
    \E key \in Keys :
        /\ Len(rate_limit_storage[key]) = 2
        /\ rate_limit_storage[key][1] < rate_limit_storage[key][2]
        /\ rate_limit_storage[key][2] = now
        /\ \E i \in CallsOf(key) :
              rl_calls[i].ok /\ rl_calls[i].t < rate_limit_storage[key][1]

\* the steps of one translate call, in pipeline order
PipelineOrder ==
    <<"Validate", "Embed", "Retrieve", "Compose", "Generate", "Account", "Respond">>

\* st is a run of the pipeline from its first step, cut short by at most one
\* Fail that nothing follows
InPipelineOrder(st) ==
    \E n \in 0..Len(PipelineOrder) :
        \/ st = SubSeq(PipelineOrder, 1, n)
        \/ n < Len(PipelineOrder) /\ st = Append(SubSeq(PipelineOrder, 1, n), "Fail")

StepsDone(r) == {req[r].steps[i] : i \in DOMAIN req[r].steps}

\* C24: the steps of a translate call occur in pipeline order and a failure
\* ends the call; the generation backend is not invoked before Retrieve has
\* completed; and the ledger changes for a step only once that step's backend
\* call has returned (embedding counters after Embed, completion counters
\* after Generate).
C24_PipelineOrderAndCost ==
    /\ [](\A r \in Slots :
            /\ InPipelineOrder(req[r].steps)
            /\ "generation" \in req[r].backends => "Retrieve" \in StepsDone(r))
    /\ [][\A r \in Slots :
            /\ (req[r].pc # "idle" /\ req'[r].pc # "idle"
                /\ cost_tracker'.embedding_requests # cost_tracker.embedding_requests)
                  => "Embed" \in StepsDone(r)
            /\ (req[r].pc # "idle" /\ req'[r].pc # "idle"
                /\ cost_tracker'.completion_requests # cost_tracker.completion_requests)
                  => "Generate" \in StepsDone(r)]_vars

\* the part of C24 about order alone
C24_OrderOnly ==
    \A r \in Slots :
        /\ InPipelineOrder(req[r].steps)
        /\ "generation" \in req[r].backends => "Retrieve" \in StepsDone(r)

\* the last n elements of a sequence
LastN(seq, n) == IF Len(seq) > n THEN SubSeq(seq, Len(seq) - n + 1, Len(seq)) ELSE seq

\* C25: neither buffer ever holds more than its capacity; recent_errors holds
\* the most recent min(n, capacity) of the n error samples recorded, in
\* arrival order; and every record into either buffer appends the new sample
\* at the back and, when the buffer was full, evicts exactly the oldest.
C25_BuffersKeepMostRecent ==
    /\ [](/\ Len(recent_errors) <= deque_maxlen
          /\ Len(recent_response_times) <= deque_maxlen
          /\ Len(recent_errors) = Min(started, deque_maxlen)
          /\ \A i \in DOMAIN recent_errors :
                recent_errors[i].rid = started - Len(recent_errors) + i)
    /\ [][/\ started' # started =>
               recent_errors' = LastN(Append(recent_errors,
                                             recent_errors'[Len(recent_errors')]),
                                      deque_maxlen)
          /\ recent_response_times' # recent_response_times =>
               recent_response_times' =
                   LastN(Append(recent_response_times,
                                recent_response_times'[Len(recent_response_times')]),
                         deque_maxlen)]_vars

\* both buffers are full and the error buffer has evicted its oldest samples
C25_Witness ==
    /\ Len(recent_errors) = deque_maxlen
    /\ recent_errors[1].rid > 1
    /\ started > deque_maxlen + 1
    /\ Len(recent_response_times) = deque_maxlen
    /\ recent_response_times[1].timestamp < recent_response_times[deque_maxlen].timestamp

\* C26: after n log_api_usage calls the usage log holds exactly the most
\* recent min(n, cap) entries in append order, never more than the cap, and
\* no entry is lost while the log is below the cap.
C26_LogKeepsMostRecent ==
    /\ Len(cost_log) <= cost_log_keep
    /\ Len(cost_log) = Min(started, cost_log_keep)
    /\ \A i \in DOMAIN cost_log :
          cost_log[i].tokens_used = started - Len(cost_log) + i

\* C27: a _trigger_alert call for a type that has never fired raises an
\* alert, whatever the clock reads.
C27_FirstAlertFires ==
    \A a \in AlertTypes, fileOk \in BOOLEAN :
        AlertsOf(a) = {} =>
            LET out == trigger_alert(alert_cooldown, alert_log, a, fileOk)
            IN  /\ Len(out.log) = Len(alert_log) + 1
                /\ out.log[Len(out.log)].type = a

\* the time of the latest alert of type a, 0 when it never fired
LastFired(a) ==
    IF AlertsOf(a) = {} THEN 0
    ELSE alert_log[CHOOSE i \in AlertsOf(a) : \A j \in AlertsOf(a) : j <= i].timestamp

\* C28: a _trigger_alert call for a type that fired within the cooldown
\* window leaves alert_cooldown, for every type, and the alert log as they
\* were; alert_cooldown therefore always holds, for each type, the time of
\* the last alert that fired and never the time of a suppressed attempt.
C28_SuppressedChangesNothing ==
    /\ \A a \in AlertTypes : alert_cooldown[a] = LastFired(a)
    /\ \A a \in AlertTypes, fileOk \in BOOLEAN :
          InCooldown(a) =>
              /\ trigger_alert(alert_cooldown, alert_log, a, fileOk).cooldown = alert_cooldown
              /\ trigger_alert(alert_cooldown, alert_log, a, fileOk).log = alert_log

\* one type is at the last instant of its cooldown window, where a call is
\* still suppressed, and another type has fired at a later time
C28_Witness ==
    \E a, b \in AlertTypes :
        /\ a # b
        /\ AlertsOf(a) # {} /\ AlertsOf(b) # {}
        /\ now = alert_cooldown[a] + alert_cooldown_duration
        /\ alert_cooldown[b] > alert_cooldown[a]
        /\ InCooldown(a) /\ InCooldown(b)

\* C29: over any sequence of handled requests get_error_rate returns a value
\* in [0, 1]: the error samples it counts never outnumber the latency samples
\* it divides by.
C29_ErrorRateAtMostOne ==
    LET rate == get_error_rate(recent_errors, recent_response_times, error_window)
    IN  /\ rate.den > 0
        /\ 0 <= rate.num
        /\ rate.num <= rate.den

\* C30: a successful pipeline call, whether it came through translate or
\* through OCR, never appends more than one entry to the usage log (one
\* entry, unless the log file cannot be written), so the logged costs do not
\* exceed the cost estimates returned.
C30_OneLogEntryPerCall ==
    [][\A r \in Slots :
          (/\ HandlerStep(r)
           /\ req'[r].status = 200
           /\ "generation" \in req'[r].backends)
              => Len(cost_log') <= Len(cost_log) + 1]_vars

\* ------------------------------------------------------------------ C31
\* C31: whenever state.initialized is true, state.index and state.glossary are
\* both present and the index holds as many vectors as the glossary has rows.
C31_InitializedMeansConsistent ==
    state_initialized =>
        /\ state_index # None
        /\ state_glossary # None
        /\ Len(Get(state_index)) = Len(Get(state_glossary))

\* the same reading of C31, in the states of a process that has not been
\* started over a processed glossary written by an earlier process
C31_ConsistentWithoutRestart ==
    state_initialized =>
        /\ state_index # None
        /\ state_glossary # None
        /\ Len(Get(state_index)) = Len(Get(state_glossary))
        /\ state_index = Some(BuildIndex(Get(state_glossary)))

\* ------------------------------------------------------------------ C32
\* C32: a glossary upload that ends in an error response leaves state.index,
\* state.glossary, state.metadata and state.initialized exactly as they were.
C32_FailedUploadChangesNothing ==
    [][\A r \in Slots :
         (/\ req[r].kind = "upload"
          /\ req[r].pc \in {"handler", "read"}
          /\ req'[r].pc = "post"
          /\ req'[r].status >= 400) => UNCHANGED appVars]_vars

\* ------------------------------------------------------------------ C33
\* call j is the next call for its key after call i
NextCallOf(i, j) ==
    /\ i < j
    /\ rl_calls[i].key = rl_calls[j].key
    /\ \A h \in CallsOf(rl_calls[i].key) : ~(i < h /\ h < j)

\* call i was rejected and call j, the next call for the key, comes exactly
\* one window later
RetryAtHint(i, j) ==
    /\ NextCallOf(i, j)
    /\ ~rl_calls[i].ok
    /\ rl_calls[j].t = rl_calls[i].t + cfg_window

\* C33: a caller rejected at time t whose next call for the same key comes at
\* time t + window, with no other call for the key in between, is admitted.
C33_RetryAtHintAdmitted ==
    \A i, j \in DOMAIN rl_calls : RetryAtHint(i, j) => rl_calls[j].ok

\* the admitted calls of the key of call i whose timestamp is the time of call i
AdmittedAtTimeOf(i) ==
    {h \in CallsOf(rl_calls[i].key) :
        h < i /\ rl_calls[h].ok /\ rl_calls[h].t = rl_calls[i].t}

\* C33 (amended): the next call for the key after a rejection at time t is
\* admitted when it comes later than t + window, and when it comes at
\* t + window it is admitted exactly if fewer admitted calls of the key than
\* its limit carry the timestamp t.
C33_RetryAfterHintAdmitted ==
    \A i, j \in DOMAIN rl_calls :
        /\ (NextCallOf(i, j) /\ ~rl_calls[i].ok
               /\ rl_calls[j].t > rl_calls[i].t + cfg_window) => rl_calls[j].ok
        /\ RetryAtHint(i, j) => (rl_calls[j].ok <=>
               Cardinality(AdmittedAtTimeOf(i)) < LimitOf(rl_calls[i].key))

\* a rejected caller came back exactly one window later and was admitted
C33_Witness ==
    \E i, j \in DOMAIN rl_calls :
        /\ RetryAtHint(i, j)
        /\ rl_calls[j].ok
        /\ cfg_window = MaxWindow

\* ------------------------------------------------------------------ C34
\* the lines of a text: its pieces between the line breaks
RECURSIVE SplitLines(_)
SplitLines(text) ==
    IF \A i \in DOMAIN text : text[i] # "nl" THEN <<text>>
    ELSE LET k == CHOOSE i \in DOMAIN text :
                      text[i] = "nl" /\ \A j \in 1..(i - 1) : text[j] # "nl"
         IN  <<SubSeq(text, 1, k - 1)>> \o SplitLines(SubSeq(text, k + 1, Len(text)))

\* a prompt has been built from the retrieved rows
Composed == search_out # None /\ "prompt" \in DOMAIN Get(search_out)

\* C34: the context block of the prompt consists of exactly one line per
\* retrieved entry, in retrieval order, line i reading
\* 'i. <english of e_i> = <arabic of e_i>'; the block follows the heading of
\* the template and the query text follows the block, in quotes.
C34_PromptListsRetrievedInOrder ==
    Composed =>
        LET out == Get(search_out)
            m == Len(out.retrieved)
            lines == SplitLines(out.prompt)
        IN  /\ Len(lines) = m + 7
            /\ lines[2] = <<"glossary_context">>
            /\ \A i \in 1..m :
                   lines[2 + i] = <<Numeral(i), ".", out.retrieved[i].row.english,
                                    "=", out.retrieved[i].row.arabic>>
            /\ lines[m + 3] = <<>>
            /\ lines[m + 4] = <<"translate_the_following">>
            /\ lines[m + 5] = <<"quote">> \o out.query \o <<"quote">>

\* a prompt over TOP_K_RETRIEVAL entries found in the index, not all the same,
\* and a query of the greatest length
C34_Witness ==
    /\ Composed
    /\ LET out == Get(search_out)
       IN  /\ Len(out.retrieved) = TOP_K_RETRIEVAL
           /\ \A i \in 1..Len(out.labels) : out.labels[i] # PadLabel
           /\ out.retrieved[1].row # out.retrieved[2].row
           /\ Len(out.query) = max_length

\* ------------------------------------------------------------------ C35
\* detect_language, called directly on every text of up to MaxLangLen characters
SpecLang == InitReq /\ [][NextLang]_vars

\* the positions of `text` that hold a character of class cls
PositionsOf(text, cls) == {i \in DOMAIN text : text[i] = cls}

\* the tag of a text by the three-bucket rule: a of its t counted letters are
\* in the Arabic range
ThreeBuckets(a, t) ==
    IF 10 * a > 7 * t THEN "arabic"
    ELSE IF 10 * a < 3 * t THEN "english"
    ELSE "mixed"

\* C35: for every input text detect_language returns the tag of the
\* three-bucket rule ('arabic' above 0.7, 'english' below 0.3, 'mixed'
\* otherwise), and so never a tag outside these three.
C35_AlwaysOneOfThreeBuckets ==
    req[1].pc = "detected" =>
        LET a == Cardinality(PositionsOf(req[1].text, "arabic"))
            t == a + Cardinality(PositionsOf(req[1].text, "ascii_alpha"))
        IN  /\ Get(req[1].lang) \in {"arabic", "english", "mixed"}
            /\ Get(req[1].lang) = ThreeBuckets(a, t)

\* C35 (amended): a text with no counted letter (no Arabic-range character
\* and no ASCII letter) yields 'unknown'; every other text yields the tag of
\* the three-bucket rule, ratios of exactly 0.3 and exactly 0.7 being 'mixed'.
C35_ThreeBucketsOrUnknown ==
    req[1].pc = "detected" =>
        LET a == Cardinality(PositionsOf(req[1].text, "arabic"))
            t == a + Cardinality(PositionsOf(req[1].text, "ascii_alpha"))
        IN  Get(req[1].lang) = IF t = 0 THEN "unknown" ELSE ThreeBuckets(a, t)

\* a text whose ratio is exactly 0.7 was tagged 'mixed'
C35_Witness ==
    /\ req[1].pc = "detected"
    /\ Cardinality(PositionsOf(req[1].text, "arabic")) = 7
    /\ Cardinality(PositionsOf(req[1].text, "ascii_alpha")) = 3
    /\ req[1].lang = Some("mixed")

\* ------------------------------------------------------------------ C36
\* request r leaves ocr_and_translate's extraction and translation in this step
OcrStep(r) == req[r].kind = "ocr" /\ req[r].pc = "read" /\ req'[r].pc = "post"

\* the status and the retrieval translate_text can end with for the text T
TranslateOutcomes(T) ==
    UNION {{[status |-> translate_text(T, cost_tracker, cost_log, embOk, genOk, q, ids,
                                       tokens, TRUE).status,
             snap |-> translate_text(T, cost_tracker, cost_log, embOk, genOk, q, ids,
                                     tokens, TRUE).snap] :
               ids \in LoadedSearchLabels(q)} :
           embOk \in BOOLEAN, genOk \in BOOLEAN, q \in Vectors, tokens \in UsageTokens}

\* C36: the outcome of an OCR request for the extracted text T is the outcome
\* translate_text gives for T, empty and whitespace-only T included: Validate
\* rejects those, so an OCR request is answered 200 only for a text that
\* Validate accepts.
C36_OcrFeedsValidate ==
    [][\A r \in Slots :
         OcrStep(r) =>
            /\ req'[r].status = 200 => sanitize_text_input(req'[r].text).ok
            /\ req'[r].text # <<>> =>
                  [status |-> req'[r].status, snap |-> req'[r].snap]
                      \in TranslateOutcomes(req'[r].text)]_vars

\* C36 (amended): for a non-empty extracted text T the OCR request ends as
\* translate_text ends for T (400 when Validate rejects T); an extraction that
\* yields the empty text never reaches translate_text and is answered 200 with
\* no retrieval, no usage log entry and no embedding or generation call.
C36_OcrFeedsValidateUnlessEmpty ==
    [][\A r \in Slots :
         OcrStep(r) =>
            /\ req'[r].text # <<>> =>
                  /\ [status |-> req'[r].status, snap |-> req'[r].snap]
                         \in TranslateOutcomes(req'[r].text)
                  /\ ~sanitize_text_input(req'[r].text).ok => req'[r].status = 400
            /\ (req'[r].text = <<>> /\ req'[r].status = 200) =>
                  /\ req'[r].snap = None
                  /\ cost_log' = cost_log
                  /\ req'[r].backends \subseteq {"vision"}]_vars

\* an OCR request whose extracted text was not empty and was rejected by
\* Validate
C36_Witness ==
    \E r \in Slots :
        /\ req[r].kind = "ocr" /\ req[r].pc = "post"
        /\ req[r].text = <<"nul">>
        /\ req[r].status = 400

\* ------------------------------------------------------------------ C37
\* a poll of wait_for_health_check was answered with HTTP 200 and an
\* aggregate status of healthy or degraded
AnsweredHealthy ==
    \E i \in DOMAIN req[1].steps :
        /\ req[1].steps[i].code = 200
        /\ req[1].steps[i].aggregate \in {"healthy", "degraded"}

\* C37: when the server has answered GET /api/health with HTTP 200 and an
\* aggregate status of healthy or degraded before the timeout,
\* wait_for_health_check does not time out and start_production_server does
\* not terminate the process.
C37_HealthyServerStarts ==
    (req[1].kind = "start_production" /\ AnsweredHealthy)
        => req[1].pc \notin {"wait_sleep", "wait_false", "terminated"}

\* ------------------------------------------------------------------ C38
\* the checks of the external monitor whose alert decision has been taken
Decided ==
    IF req[1].pc = "monitor_alert"
    THEN 1..(Len(req[1].steps) - 1) ELSE DOMAIN req[1].steps

\* the number of consecutive failed checks that end with check i
FailedRun(i) ==
    LET last == {j \in 1..i : req[1].steps[j].success}
        from == IF last = {} THEN 0 ELSE CHOOSE j \in last : \A k \in last : k <= j
    IN  i - from

====
